---- MODULE Spec2Model ----
(***************************************************************************)
(* Node graph, block editing commands and reconciler of wiztype/lexical.   *)
(*                                                                         *)
(* Four groups of state and eighteen specifications:                       *)
(*   SpecSplice     BlockNode.spliceChildBlocks and its selection repair   *)
(*                  (the secondary child-block list, src/unnamed/part_004) *)
(*   SpecSpliceAny  spliceChildBlocks with arguments of any kind           *)
(*   SpecBlock      Block / BlockText editing: insertAfter, indent,        *)
(*                  outdent, backspace on documents of paragraphs          *)
(*                  (src/unnamed/part_001, part_002)                       *)
(*   SpecBlockType  the same commands on small documents with one Block    *)
(*                  of any block type                                      *)
(*   SpecBlockRemove  the same commands and remove, with the Block         *)
(*                  transform run after each                               *)
(*   SpecReconcile  reconcileRoot and the per-node observers               *)
(*                  (src/unnamed/part_005, part_002)                       *)
(*   SpecRender     one reconcileRoot with a render that unmounts and      *)
(*                  mounts observers, and what runs after its return       *)
(*   SpecSetMutatedNode  the _setMutatedNode of a commit, called with any  *)
(*                  key and type                                           *)
(*   SpecEnter      the Enter key on documents whose BlockTexts hold text  *)
(*                  or are empty                                           *)
(*   SpecInsertBefore  BlockTextNode.insertBefore with any created node    *)
(*   SpecVersion    BlockNode.setBlockType of part_004 in the pending and  *)
(*                  the committed version of the editor state              *)
(*   SpecDepth      indent and outdent with selections over several nodes  *)
(*   SpecLock       the mutation lock of useLock over the life of the      *)
(*                  components, with commits that are not put off for ever *)
(*   SpecSetBlockType  BlockNode.setBlockType of part_001 with any value    *)
(*   SpecRegistry   the registration effect of useNodeReconcile and        *)
(*                  useNodeUpdate, with the Set objects its closures keep  *)
(*   SpecDiff       simpleDiffStringWithCursor on any two texts            *)
(*   SpecHighlight  handleHighlightUpdate for the highlights of one        *)
(*                  BlockText whose text changes                           *)
(*   SpecHostView   the ref callbacks of useNodeDOMSetter in the commits   *)
(*                  of the rendering                                       *)
(***************************************************************************)
EXTENDS Integers, Sequences, FiniteSets, TLC

VARIABLES
  nodeMap,        \* part_004: key -> [parent, prev, next, firstBlock, lastBlock, blocksSize]
  selection,      \* part_004: the range selection, [has, anchor, focus]
  hasGetFirstBlockChild, \* part_004: whether a superclass supplies getFirstBlockChild
  calls,          \* part_004: number of spliceChildBlocks calls made so far
  lastSplice,     \* part_004: outcome of the last spliceChildBlocks call
  children,       \* part_001/002: element key -> sequence of child keys
  blockType,      \* part_001/002: Block key -> __blockType
  blockSel,       \* part_002: the selection, [has, anchor, anchorOffset, focus, focusOffset]
  created,        \* part_001/002: number of Blocks created so far
  lastCmd,        \* part_001/002: the last operation, its result and the document before it
  editorNodeMap,  \* part_005: the committed editor state, key -> snapshot
  keyToUpdatersMap, \* part_002/005: editor._keyToUpdatersMap
  keyToDOMMap,    \* part_002: editor._keyToDOMMap, key -> the component whose element it is
  components,     \* part_002: component id -> [mounted, key, reconcile]
  cidsUsed,       \* part_002: number of component ids handed out
  reconcilingContext, \* part_005: editor._reconcilingContext
  lastReconcile,  \* part_005: the last reconcileRoot call, its inputs and what it did
  objects,        \* part_004: node object -> __blockType
  editorState,    \* the committed version, key -> node object
  pendingEditorState, \* the version being edited, [active, nodeMap, cloneNotNeeded, committed]
  mutationLocks,  \* part_002: the lock ids locked by editor.lockMutation
  lockHolders,    \* part_002: lock id -> what became of the component that holds it
  updaterSets,    \* part_002/003: the Set objects of handlers, set -> handlers
  setOfKey,       \* part_002/003: editor._keyToUpdatersMap as a Map, key -> Set object
  observers,      \* part_002/003: observer -> [registered, key, set] of its registration effect
  lastDiff,       \* part_002: the last simpleDiffStringWithCursor call and its result
  blockTextContent, \* part_002: the text of the BlockText in the committed version
  highlights,     \* part_002: the highlights of the BlockText, in the order of the list
  lastHighlightUpdate, \* part_002: the last handleHighlightUpdate call and the list before it
  hostViews       \* part_002: the host views (elements), [keyOf, phase, detached] of the commits

spliceVars == <<nodeMap, selection, hasGetFirstBlockChild, calls, lastSplice>>

blockVars == <<children, blockType, blockSel, created, lastCmd>>

reconcileVars ==
  <<editorNodeMap, keyToUpdatersMap, keyToDOMMap, components, cidsUsed,
    reconcilingContext, lastReconcile>>

versionVars == <<objects, editorState, pendingEditorState>>

lockVars == <<mutationLocks, lockHolders>>

registryVars == <<updaterSets, setOfKey, observers>>

diffVars == <<lastDiff>>

highlightVars == <<blockTextContent, highlights, lastHighlightUpdate>>

hostVars == <<hostViews>>

hookVars == <<registryVars, diffVars, highlightVars, hostVars>>

editorVars == <<versionVars, lockVars, hookVars>>

vars == <<nodeMap, selection, hasGetFirstBlockChild, calls, lastSplice,
          children, blockType, blockSel, created, lastCmd,
          editorNodeMap, keyToUpdatersMap, keyToDOMMap, components, cidsUsed,
          reconcilingContext, lastReconcile,
          objects, editorState, pendingEditorState, mutationLocks, lockHolders,
          updaterSets, setOfKey, observers, lastDiff,
          blockTextContent, highlights, lastHighlightUpdate, hostViews>>

----------------------------------------------------------------------------
(* Bounds *)

\* number of BlockNode objects of the child-block list model
NumNodes == 3

\* longest nodesToInsert array handed to spliceChildBlocks
MaxInsert == 2

\* number of spliceChildBlocks calls in one run
MaxCalls == 3

\* number of Blocks a document can hold
MaxBlocks == 4

\* largest offset of a selection point inside a BlockText
MaxOffset == 1

\* number of Blocks of a document whose Blocks carry block types
TypedBlocks == 2

\* number of spliceChildBlocks calls with arguments of any kind
MaxCallsAny == 2

\* number of Blocks of a document nodes are removed from
RemoveBlocks == 3

\* number of node keys the reconciler sees, the root included
NumRKeys == 2

\* number of observer components mounted in one run
MaxObservers == 2

\* number of observer components mounted in one run whose commits render
RenderObservers == 3

InsertBlocks == 3

\* number of nodes and of node objects of the editor state model
NumVersionNodes == 2

MaxObjects == 3

\* number of components that take a mutation lock
MaxLockHolders == 4

\* number of Blocks of a document indented and outdented with selections over text
DepthBlocks == 3

\* number of observers that register handlers, and of the keys they observe
MaxHandlers == 3

NumObservedKeys == 2

\* longest text of a BlockText handed to the diff
MaxTextLen == 3

\* number of highlights of the BlockText
MaxHighlights == 1

\* number of keys with a host view, and of host views (elements)
NumHostKeys == 3

MaxHostViews == 5

----------------------------------------------------------------------------
(* Keys *)

\* null links (__parent, __prev, __next, __firstBlock, __lastBlock)
Null == -1

\* the key of the document root
RootKey == 0

Nodes == 1..NumNodes

Keys == Nodes \cup {RootKey}

\* a node fresh from the constructor: no links, no child blocks
NewNode ==
  [parent |-> Null, prev |-> Null, next |-> Null,
   firstBlock |-> Null, lastBlock |-> Null, blocksSize |-> 0]

----------------------------------------------------------------------------
(* Reads of the child-block list, part_004 *)

RECURSIVE walkNext(_, _, _, _)
\* getChildBlockAtIndex, first half: forward from the first child block
walkNext(m, node, i, index) ==
  IF node = Null \/ i > index THEN Null
  ELSE IF i = index THEN node
  ELSE walkNext(m, m[node].next, i + 1, index)

RECURSIVE walkPrev(_, _, _, _)
\* getChildBlockAtIndex, second half: backward from the last child block
walkPrev(m, node, i, index) ==
  IF node = Null \/ i < index THEN Null
  ELSE IF i = index THEN node
  ELSE walkPrev(m, m[node].prev, i - 1, index)

getChildBlockAtIndex(m, self, index) ==
  LET size == m[self].blocksSize
  IN IF 2 * index < size
       THEN walkNext(m, m[self].firstBlock, 0, index)
       ELSE walkPrev(m, m[self].lastBlock, size - 1, index)

RECURSIVE walkSiblings(_, _, _)
\* the loop of getChildBlocks: child, child.getNextSibling(), ... up to
\* null; a walk that does not end is cut off after fuel nodes
walkSiblings(m, child, fuel) ==
  IF child = Null \/ fuel = 0 THEN <<>>
  ELSE <<child>> \o walkSiblings(m, m[child].next, fuel - 1)

\* BlockNode.getChildBlocks(), part_004 lines 48-56
BlockNode_getChildBlocks(m, self) ==
  walkSiblings(m, m[self].firstBlock, NumNodes + 1)

RECURSIVE hasAncestorWithin(_, _, _, _)
\* whether target is reached from node by following __parent (node itself counts)
hasAncestorWithin(m, node, target, fuel) ==
  IF node = Null \/ fuel = 0 THEN FALSE
  ELSE IF node = target THEN TRUE
  ELSE hasAncestorWithin(m, m[node].parent, target, fuel - 1)

\* the node is attached: its parent chain reaches the root
isAttached(m, node) == hasAncestorWithin(m, node, RootKey, NumNodes + 1)

\* $hasAncestor(child, target): target is a proper ancestor of child
hasAncestor(m, child, target) ==
  child # Null /\ hasAncestorWithin(m, m[child].parent, target, NumNodes + 1)

----------------------------------------------------------------------------
(* removeFromParent: unlinks a node from the sibling list it is in *)

removeFromParent(m, node) ==
  LET oldParent == m[node].parent
      p == m[node].prev
      n == m[node].next
  IN IF oldParent = Null THEN m
     ELSE
       LET m1 == IF p = Null
                   THEN IF n # Null
                          THEN [m EXCEPT ![oldParent].firstBlock = n, ![n].prev = Null]
                          ELSE [m EXCEPT ![oldParent].firstBlock = Null]
                   ELSE IF n # Null
                          THEN [m EXCEPT ![n].prev = p, ![p].next = n, ![node].prev = Null]
                          ELSE [m EXCEPT ![p].next = Null, ![node].prev = Null]
           m2 == IF n = Null
                   THEN IF p # Null
                          THEN [m1 EXCEPT ![oldParent].lastBlock = p, ![p].next = Null]
                          ELSE [m1 EXCEPT ![oldParent].lastBlock = Null]
                   ELSE IF p # Null
                          THEN [m1 EXCEPT ![p].next = n, ![n].prev = p, ![node].next = Null]
                          ELSE [m1 EXCEPT ![n].prev = Null, ![node].next = Null]
       IN [m2 EXCEPT ![oldParent].blocksSize = @ - 1, ![node].parent = Null]

----------------------------------------------------------------------------
(* Selection repair *)

RECURSIVE pointRemovedWithin(_, _, _, _, _)
pointRemovedWithin(m, node, removeSet, insertSet, fuel) ==
  IF node = Null \/ fuel = 0 THEN FALSE
  ELSE IF node \in removeSet /\ node \notin insertSet THEN TRUE
  ELSE pointRemovedWithin(m, m[node].parent, removeSet, insertSet, fuel - 1)

\* the point's node, or one of its ancestors, was removed and not re-inserted
isPointRemoved(m, point, removeSet, insertSet) ==
  pointRemovedWithin(m, point, removeSet, insertSet, NumNodes + 2)

\* the key a removed point moves to: the node before the range, else the
\* node after it, else the parent
moveSelectionPointToSibling(parent, prevSibling, nextSibling) ==
  IF prevSibling # Null THEN prevSibling
  ELSE IF nextSibling # Null THEN nextSibling
  ELSE parent

\* BlockNode.canBeEmpty(), part_001 lines 61-63
canBeEmpty == FALSE

\* BlockNode.isEmpty() of a node without inline children
isEmpty(m, node) == m[node].blocksSize = 0

RECURSIVE removeNode(_, _, _, _)
\* LexicalNode.remove(): moves the selection off the node and its subtree,
\* unlinks the node, and removes a parent that became empty and may not be
removeNode(m, sel, node, fuel) ==
  LET parent == m[node].parent IN
  IF parent = Null \/ fuel = 0 THEN [m |-> m, sel |-> sel]
  ELSE
    LET inA == sel.has /\ hasAncestor(m, sel.anchor, node)
        inF == sel.has /\ hasAncestor(m, sel.focus, node)
        a1 == IF inA THEN node ELSE sel.anchor
        f1 == IF inF THEN node ELSE sel.focus
        to == moveSelectionPointToSibling(parent, m[node].prev, m[node].next)
        sel2 == IF sel.has
                  THEN [sel EXCEPT !.anchor = IF a1 = node THEN to ELSE a1,
                                   !.focus = IF f1 = node THEN to ELSE f1]
                  ELSE sel
        m2 == removeFromParent(m, node)
    IN IF parent # RootKey /\ ~canBeEmpty /\ isEmpty(m2, parent)
         THEN removeNode(m2, sel2, parent, fuel - 1)
         ELSE [m |-> m2, sel |-> sel2]

----------------------------------------------------------------------------
(* BlockNode.spliceChildBlocks, part_004 lines 149-278 *)

RECURSIVE deleteLoop(_, _, _, _)
\* lines 180-190: unlink deleteCount nodes starting at nodeToDelete
deleteLoop(m, nodeToDelete, left, removed) ==
  IF left = 0 THEN [m |-> m, rem |-> removed, err |-> "ok"]
  ELSE IF nodeToDelete = Null
    THEN [m |-> m, rem |-> removed, err |-> "splice: sibling not found"]
  ELSE deleteLoop(removeFromParent(m, nodeToDelete), m[nodeToDelete].next,
                  left - 1, Append(removed, nodeToDelete))

\* line 210, writablePrevNode.__nextBlock = nodeKeyToInsert: the link from the
\* previous node to the inserted one is stored in __nextBlock, a field that
\* nothing reads (getNextSibling reads __next), so __next keeps its old value
\* and the map of fields that are read is unchanged
linkAfter(m, prevNode, key) == m

\* lines 195-219: one turn of the insertion loop
insertOne(st, self, nodeToInsert) ==
  LET same == st.prevNode # Null /\ nodeToInsert = st.prevNode
      prevNode == IF same THEN st.m[st.prevNode].prev ELSE st.prevNode
      nodeBeforeRange == IF same THEN prevNode ELSE st.nodeBeforeRange
      newSize == IF st.m[nodeToInsert].parent = self
                   THEN st.newSize - 1 ELSE st.newSize
      m1 == removeFromParent(st.m, nodeToInsert)
      m2 == IF prevNode = Null
              THEN [m1 EXCEPT ![self].firstBlock = nodeToInsert,
                              ![nodeToInsert].prev = Null]
              ELSE [linkAfter(m1, prevNode, nodeToInsert)
                      EXCEPT ![nodeToInsert].prev = prevNode]
  IN IF nodeToInsert = self
       THEN [st EXCEPT !.m = m2, !.prevNode = prevNode,
                       !.nodeBeforeRange = nodeBeforeRange,
                       !.newSize = newSize,
                       !.err = "append: attempting to append self"]
       ELSE [st EXCEPT !.m = [m2 EXCEPT ![nodeToInsert].parent = self],
                       !.prevNode = nodeToInsert,
                       !.nodeBeforeRange = nodeBeforeRange,
                       !.newSize = newSize,
                       !.ins = Append(st.ins, nodeToInsert)]

RECURSIVE insertLoop(_, _, _, _)
insertLoop(st, self, nodesToInsert, i) ==
  IF i > Len(nodesToInsert) \/ st.err # "ok" THEN st
  ELSE insertLoop(insertOne(st, self, nodesToInsert[i]), self, nodesToInsert, i + 1)

\* lines 222-239: close the list after the inserted nodes and store the size
closeRange(st, self, start, deleteCount, oldSize, nodeAfterRange) ==
  LET prevNode == st.prevNode
      m1 == IF start + deleteCount = oldSize
              THEN IF prevNode # Null
                     THEN [st.m EXCEPT ![prevNode].next = Null,
                                       ![self].lastBlock = prevNode]
                     ELSE st.m
              ELSE IF nodeAfterRange # Null
                     THEN IF prevNode # Null
                            THEN [st.m EXCEPT ![nodeAfterRange].prev = prevNode,
                                              ![prevNode].next = nodeAfterRange]
                            ELSE [st.m EXCEPT ![nodeAfterRange].prev = Null]
                     ELSE st.m
  IN [m1 EXCEPT ![self].blocksSize = st.newSize]

\* lines 244-275: selection repair and removal of a parent left empty
adjustSelection(m, sel, self, st, nodeAfterRange) ==
  IF Len(st.rem) > 0 /\ sel.has
    THEN
      LET removeSet == {st.rem[i] : i \in 1..Len(st.rem)}
          insertSet == {st.ins[i] : i \in 1..Len(st.ins)}
          to == moveSelectionPointToSibling(self, st.nodeBeforeRange, nodeAfterRange)
          sel1 == [sel EXCEPT
                     !.anchor = IF isPointRemoved(m, sel.anchor, removeSet, insertSet)
                                  THEN to ELSE @,
                     !.focus = IF isPointRemoved(m, sel.focus, removeSet, insertSet)
                                 THEN to ELSE @]
      IN IF st.newSize = 0 /\ ~canBeEmpty /\ self # RootKey
           THEN removeNode(m, sel1, self, NumNodes + 1)
           ELSE [m |-> m, sel |-> sel1]
    ELSE [m |-> m, sel |-> sel]

\* The whole method.  getFirstBlockChild (line 178) is not a method of
\* BlockNode in part_004 (the accessor is getFirstChildBlock): the call either
\* raises a TypeError or, where a superclass supplies it, returns the first
\* child block; hasGFBC chooses between the two.
spliceChildBlocks(m0, sel, self, start, deleteCount, nodesToInsert, hasGFBC) ==
  LET oldSize == m0[self].blocksSize
      nodeAfterRange == getChildBlockAtIndex(m0, self, start + deleteCount)
      nodeBeforeRange0 ==
        IF start # 0
          THEN IF start = oldSize
                 THEN m0[self].lastBlock
                 ELSE LET node == getChildBlockAtIndex(m0, self, start)
                      IN IF node # Null THEN m0[node].prev ELSE Null
          ELSE Null
      del == IF deleteCount > 0
               THEN IF nodeBeforeRange0 = Null /\ ~hasGFBC
                      THEN [m |-> m0, rem |-> <<>>,
                            err |-> "TypeError: getFirstBlockChild is not a function"]
                      ELSE deleteLoop(m0,
                                      IF nodeBeforeRange0 = Null
                                        THEN m0[self].firstBlock
                                        ELSE m0[nodeBeforeRange0].next,
                                      deleteCount, <<>>)
               ELSE [m |-> m0, rem |-> <<>>, err |-> "ok"]
      st0 == [m |-> del.m, rem |-> del.rem, ins |-> <<>>, err |-> del.err,
              prevNode |-> nodeBeforeRange0, nodeBeforeRange |-> nodeBeforeRange0,
              newSize |-> oldSize - deleteCount + Len(nodesToInsert)]
      st1 == insertLoop(st0, self, nodesToInsert, 1)
  IN IF st1.err # "ok"
       THEN [m |-> st1.m, sel |-> sel, err |-> st1.err, rem |-> st1.rem, ins |-> st1.ins]
       ELSE
         LET m2 == closeRange(st1, self, start, deleteCount, oldSize, nodeAfterRange)
             adj == adjustSelection(m2, sel, self, st1, nodeAfterRange)
         IN [m |-> adj.m, sel |-> adj.sel, err |-> "ok", rem |-> st1.rem, ins |-> st1.ins]

----------------------------------------------------------------------------
(* SpecSplice: any sequence of spliceChildBlocks calls *)

NoSelection == [has |-> FALSE, anchor |-> Null, focus |-> Null]

NoSplice ==
  [op |-> "none", err |-> "ok", args |-> <<>>, selfAttached |-> FALSE,
   anchorHit |-> FALSE, focusHit |-> FALSE, pre |-> <<>>]

\* arrays of at most MaxInsert different nodes
InsertArrays ==
  {a \in UNION {[1..n -> Nodes] : n \in 0..MaxInsert} :
     \A i, j \in 1..Len(a) : i # j => a[i] # a[j]}

\* the point's node or one of its ancestors is among the removed keys
pointInRange(m, sel, point, removed) ==
  sel.has /\ \E i \in 1..Len(removed) :
               hasAncestorWithin(m, point, removed[i], NumNodes + 1)

\* Keys are handed out in increasing order: the nodes of a call that are
\* fresh from the constructor are the lowest-numbered fresh nodes.
keysInOrder(m, self, nodesToInsert) ==
  LET fresh == {k \in Nodes : m[k] = NewNode}
      used == ({self} \cup {nodesToInsert[i] : i \in 1..Len(nodesToInsert)}) \cap fresh
  IN \A k \in used : \A j \in fresh : j < k => j \in used

----------------------------------------------------------------------------
(* Block / BlockText documents, part_001 and part_002 *)

\* A document is a tree: the root holds Blocks, a Block holds its BlockText
\* followed by child Blocks.  Block b is created together with BlockText
\* textOf(b); keys are handed out in increasing order.
BlockKeys == 1..MaxBlocks

textOf(b) == MaxBlocks + b

TextKeys == {textOf(b) : b \in BlockKeys}

ElementKeys == BlockKeys \cup {RootKey}

Offsets == 0..MaxOffset

\* part_001 lines 19-38
blockTypes ==
  {"paragraph", "h1", "h2", "h3", "h4", "h5", "h6",
   "bulleted_list_item", "numbered_list_item", "to_do"}

defaultBlockType == "paragraph"

isBlockType(t) == t \in blockTypes

isBlockNode(k) == k \in BlockKeys

isBlockTextNode(k) == k \in TextKeys

isRootNode(k) == k = RootKey

----------------------------------------------------------------------------
(* ElementNode and LexicalNode operations on the child lists *)

seqRange(s) == {s[i] : i \in 1..Len(s)}

indexOf(s, n) == CHOOSE i \in 1..Len(s) : s[i] = n

\* node.getParent()
getParent(ch, n) ==
  IF \E p \in DOMAIN ch : n \in seqRange(ch[p])
    THEN CHOOSE p \in DOMAIN ch : n \in seqRange(ch[p])
    ELSE Null

\* node.getPreviousSibling()
getPreviousSibling(ch, n) ==
  LET p == getParent(ch, n)
  IN IF p = Null THEN Null
     ELSE IF indexOf(ch[p], n) = 1 THEN Null
     ELSE ch[p][indexOf(ch[p], n) - 1]

\* node.getNextSiblings()
getNextSiblings(ch, n) ==
  LET p == getParent(ch, n)
  IN IF p = Null THEN <<>>
     ELSE SubSeq(ch[p], indexOf(ch[p], n) + 1, Len(ch[p]))

\* removeFromParent(node): the node leaves the child list it is in
detach(ch, n) ==
  [p \in DOMAIN ch |-> SelectSeq(ch[p], LAMBDA x : x # n)]

RECURSIVE append(_, _, _)
\* parent.append(...nodes): each node leaves its place and becomes the last
\* child of parent, in the order given
append(ch, parent, nodes) ==
  IF nodes = <<>> THEN ch
  ELSE LET d == detach(ch, Head(nodes))
       IN append([d EXCEPT ![parent] = Append(@, Head(nodes))], parent, Tail(nodes))

\* target.insertAfter(n): n leaves its place and becomes the next sibling of
\* target
insertAfter(ch, target, n) ==
  LET d == detach(ch, n)
      p == getParent(d, target)
      i == indexOf(d[p], target)
  IN [d EXCEPT ![p] = SubSeq(@, 1, i) \o <<n>> \o SubSeq(@, i + 1, Len(@))]

RECURSIVE preorder(_, _)
RECURSIVE preorderAll(_, _)
\* the nodes under n in document order, n first
preorder(ch, n) ==
  IF n \in DOMAIN ch THEN <<n>> \o preorderAll(ch, ch[n]) ELSE <<n>>

preorderAll(ch, s) ==
  IF s = <<>> THEN <<>> ELSE preorder(ch, Head(s)) \o preorderAll(ch, Tail(s))

isCollapsed(sel) ==
  sel.anchor = sel.focus /\ sel.anchorOffset = sel.focusOffset

\* selection.getNodes(): the nodes from the first to the last point of the
\* selection in document order (the ancestors the walk leaves are Blocks,
\* which every caller here filters out)
getNodes(ch, sel) ==
  LET order == preorder(ch, RootKey)
      a == indexOf(order, sel.anchor)
      f == indexOf(order, sel.focus)
  IN IF isCollapsed(sel) THEN <<sel.anchor>>
     ELSE IF a <= f THEN SubSeq(order, a, f)
     ELSE SubSeq(order, f, a)

RECURSIVE findMatchingParent(_, _, _)
\* $findMatchingParent(startNode, findFn): the first of startNode and its
\* ancestors below the root that is in matching, else null
findMatchingParent(ch, curr, matching) ==
  IF curr = RootKey \/ curr = Null THEN Null
  ELSE IF curr \in matching THEN curr
  ELSE findMatchingParent(ch, getParent(ch, curr), matching)

----------------------------------------------------------------------------
(* part_001: BlockNode and BlockTextNode *)

\* BlockNode.getChildBlocks, part_001 lines 76-86
getChildBlocks(ch, block) ==
  SelectSeq(ch[block], LAMBDA n : ~isBlockTextNode(n))

\* BlockNode.setBlockType without the invariant on isBlockType
setBlockType_unchecked(types, block, newType) ==
  [types EXCEPT ![block] = newType]

\* BlockNode.setBlockType, part_001 lines 90-95
setBlockType(types, block, newType) ==
  IF isBlockType(newType) THEN [types EXCEPT ![block] = newType] ELSE types

\* getNewBlockType without its case 'to_do'
getNewBlockType_noToDo(type) ==
  CASE type = "bulleted_list_item" -> type
    [] type = "numbered_list_item" -> type
    [] OTHER -> defaultBlockType

\* getNewBlockType, part_001 lines 199-208
getNewBlockType(type) ==
  CASE type = "bulleted_list_item" -> type
    [] type = "numbered_list_item" -> type
    [] type = "to_do" -> type
    [] OTHER -> defaultBlockType

\* BlockTextNode.insertAfter that leaves the next siblings where they are
BlockTextNode_insertAfter_keepSiblings(ch, types, self, nodeToInsert, newBlock) ==
  LET block == getParent(ch, self)
      appended == append(ch, newBlock, <<nodeToInsert>>)
  IN [ch |-> insertAfter(appended, block, newBlock),
      types |-> [types EXCEPT ![newBlock] = defaultBlockType],
      err |-> "ok"]

\* BlockTextNode.insertAfter(nodeToInsert) for a BlockText nodeToInsert,
\* part_001 lines 141-160; newBlock is the key $createBlockNode hands out
BlockTextNode_insertAfter(ch, types, self, nodeToInsert, newBlock) ==
  LET block == getParent(ch, self)
      siblings == getNextSiblings(ch, self)
      appended == append(ch, newBlock, <<nodeToInsert>> \o siblings)
  IN IF ~isBlockNode(block)
       THEN [ch |-> ch, types |-> types,
             err |-> "insertAfter: block node is not parent of blockText node"]
       ELSE [ch |-> insertAfter(appended, block, newBlock),
             types |-> [types EXCEPT ![newBlock] = getNewBlockType(types[block])],
             err |-> "ok"]

----------------------------------------------------------------------------
(* part_002: block depth, indent, outdent, backspace *)

\* $getNearestBlockAncestorOrThrow, part_002 lines 267-279 (Null: it throws)
getNearestBlockAncestorOrThrow(ch, startNode) ==
  findMatchingParent(ch, startNode, BlockKeys)

\* $getBlockParent, part_002 lines 281-291
getBlockParent(ch, startNode) ==
  LET blockNode == findMatchingParent(ch, startNode, BlockKeys \ {startNode})
  IN IF blockNode = Null THEN RootKey ELSE blockNode

RECURSIVE countBlockAncestors(_, _)
countBlockAncestors(ch, node) ==
  IF node = Null \/ isRootNode(node) THEN 0
  ELSE (IF isBlockNode(node) THEN 1 ELSE 0)
         + countBlockAncestors(ch, getParent(ch, node))

\* $getBlockDepth that starts counting at the Block itself
getBlockDepth_countSelf(ch, startNode) ==
  countBlockAncestors(ch, findMatchingParent(ch, startNode, BlockKeys))

\* $getBlockDepth, part_002 lines 293-304
getBlockDepth(ch, startNode) ==
  LET startBlock == getNearestBlockAncestorOrThrow(ch, startNode)
  IN countBlockAncestors(ch, getParent(ch, startBlock))

\* BlockNode inherits ElementNode.canIndent
canIndent(block) == TRUE

RECURSIVE dedupe(_, _)
\* the filter with alreadyHandled, part_002 lines 320-327: the first
\* occurrence of every Block
dedupe(blocks, alreadyHandled) ==
  IF blocks = <<>> THEN <<>>
  ELSE IF ~canIndent(Head(blocks)) \/ Head(blocks) \in alreadyHandled
    THEN dedupe(Tail(blocks), alreadyHandled)
  ELSE <<Head(blocks)>> \o dedupe(Tail(blocks), alreadyHandled \cup {Head(blocks)})

RECURSIVE sortByDepth(_, _, _, _)
\* Array.prototype.sort with the comparator of part_002 lines 332-335, a
\* stable sort: depth ascending for indent, descending for outdent
sortByDepth(ch, blocks, indent, level) ==
  IF level > MaxBlocks THEN <<>>
  ELSE LET d == IF indent THEN level ELSE MaxBlocks - level
       IN SelectSeq(blocks, LAMBDA b : getBlockDepth(ch, b) = d)
            \o sortByDepth(ch, blocks, indent, level + 1)

\* nodesToPerform that keeps the Blocks in the order of the selection
nodesToPerform_selectionOrder(ch, sel, indent) ==
  LET nodes == getNodes(ch, sel)
      inner == SelectSeq(nodes, LAMBDA n : ~isBlockNode(n))
      blocks == [i \in 1..Len(inner) |->
                   getNearestBlockAncestorOrThrow(ch, inner[i])]
  IN dedupe(blocks, {})

\* nodesToPerform, part_002 lines 315-336
nodesToPerform(ch, sel, indent) ==
  LET nodes == getNodes(ch, sel)
      inner == SelectSeq(nodes, LAMBDA n : ~isBlockNode(n))
      blocks == [i \in 1..Len(inner) |->
                   getNearestBlockAncestorOrThrow(ch, inner[i])]
  IN sortByDepth(ch, dedupe(blocks, {}), indent, 0)

\* an indent that makes the Block the first child Block of its previous
\* sibling
performIndent_first(ch, node) ==
  LET prevBlock == getPreviousSibling(ch, node)
      d == detach(ch, node)
  IN IF ~isBlockNode(prevBlock) THEN ch
     ELSE [d EXCEPT ![prevBlock] = <<Head(@), node>> \o Tail(@)]

\* the callback of INDENT_CONTENT_COMMAND, part_002 lines 436-443
performIndent(ch, node) ==
  LET prevBlock == getPreviousSibling(ch, node)
      childBlocks == getChildBlocks(ch, node)
  IN IF ~isBlockNode(prevBlock) THEN ch
     ELSE append(ch, prevBlock, <<node>> \o childBlocks)

\* an outdent that leaves the following siblings with the old parent
performOutdent_aloneAfterParent(ch, node) ==
  LET parentBlock == getBlockParent(ch, node)
  IN IF isRootNode(parentBlock) THEN ch
     ELSE insertAfter(ch, parentBlock, node)

\* an outdent that links the Block after its parent Block without unlinking
\* it from the parent Block's child list
performOutdent_stillInParent(ch, node) ==
  LET parentBlock == getBlockParent(ch, node)
      siblings == getNextSiblings(ch, node)
      moved == IF Len(siblings) > 0 THEN append(ch, node, siblings) ELSE ch
      p == getParent(moved, parentBlock)
      i == indexOf(moved[p], parentBlock)
  IN IF isRootNode(parentBlock) THEN ch
     ELSE [moved EXCEPT ![p] = SubSeq(@, 1, i) \o <<node>> \o SubSeq(@, i + 1, Len(@))]

\* an outdent that tests for the root after the following siblings have
\* been appended to the Block
performOutdent_rootTestLate(ch, node) ==
  LET parentBlock == getBlockParent(ch, node)
      siblings == getNextSiblings(ch, node)
      moved == IF Len(siblings) > 0 THEN append(ch, node, siblings) ELSE ch
  IN IF isRootNode(parentBlock) THEN moved
     ELSE insertAfter(moved, parentBlock, node)

\* the callback of OUTDENT_CONTENT_COMMAND, part_002 lines 449-457
performOutdent(ch, node) ==
  LET parentBlock == getBlockParent(ch, node)
      siblings == getNextSiblings(ch, node)
      moved == IF Len(siblings) > 0 THEN append(ch, node, siblings) ELSE ch
  IN IF isRootNode(parentBlock) THEN ch
     ELSE insertAfter(moved, parentBlock, node)

RECURSIVE performAll(_, _, _)
\* nodesToPerform.forEach, part_002 lines 337-339
performAll(ch, blocks, indent) ==
  IF blocks = <<>> THEN ch
  ELSE performAll(IF indent THEN performIndent(ch, Head(blocks))
                  ELSE performOutdent(ch, Head(blocks)),
                  Tail(blocks), indent)

\* handleIndentAndOutdent that reports whether it moved a Block
handleIndentAndOutdent_moved(ch, sel, indent) ==
  IF ~sel.has THEN [ch |-> ch, ret |-> FALSE]
  ELSE LET after == performAll(ch, nodesToPerform(ch, sel, indent), indent)
       IN [ch |-> after, ret |-> after # ch]

\* handleIndentAndOutdent, part_002 lines 306-342
handleIndentAndOutdent(ch, sel, indent) ==
  IF ~sel.has THEN [ch |-> ch, ret |-> FALSE]
  ELSE LET blocks == nodesToPerform(ch, sel, indent)
       IN [ch |-> performAll(ch, blocks, indent), ret |-> Len(blocks) > 0]

\* editor.dispatchCommand(OUTDENT_CONTENT_COMMAND): the registered handler
\* runs and its result is returned
dispatchOutdent(ch, sel) == handleIndentAndOutdent(ch, sel, FALSE)

\* a KEY_BACKSPACE_COMMAND handler that goes on to outdent after it has
\* reset the block type
keyBackspace_fallThrough(ch, types, sel) ==
  LET block == findMatchingParent(ch, sel.anchor, BlockKeys)
      out == handleIndentAndOutdent(ch, sel, FALSE)
      reset == IF types[block] # "paragraph"
                 THEN [types EXCEPT ![block] = "paragraph"] ELSE types
  IN IF ~sel.has \/ ~isCollapsed(sel) \/ sel.anchorOffset # 0
       THEN [ch |-> ch, types |-> types, ret |-> FALSE,
             dispatched |-> <<>>, prevented |-> FALSE]
     ELSE IF countBlockAncestors(ch, getParent(ch, block)) # 0
       THEN [ch |-> out.ch, types |-> reset, ret |-> out.ret,
             dispatched |-> <<"OUTDENT_CONTENT_COMMAND">>, prevented |-> TRUE]
     ELSE [ch |-> ch, types |-> reset, ret |-> reset # types,
           dispatched |-> <<>>, prevented |-> reset # types]

\* the KEY_BACKSPACE_COMMAND handler, part_002 lines 368-399
keyBackspace(ch, types, sel) ==
  LET block == getNearestBlockAncestorOrThrow(ch, sel.anchor)
      out == dispatchOutdent(ch, sel)
  IN IF ~sel.has \/ ~isCollapsed(sel) \/ sel.anchorOffset # 0
       THEN [ch |-> ch, types |-> types, ret |-> FALSE,
             dispatched |-> <<>>, prevented |-> FALSE]
     ELSE IF isBlockNode(block) /\ types[block] # "paragraph"
       THEN [ch |-> ch, types |-> setBlockType(types, block, "paragraph"),
             ret |-> TRUE, dispatched |-> <<>>, prevented |-> TRUE]
     ELSE IF isBlockNode(block) /\ getBlockDepth(ch, block) # 0
       THEN [ch |-> out.ch, types |-> types, ret |-> out.ret,
             dispatched |-> <<"OUTDENT_CONTENT_COMMAND">>, prevented |-> TRUE]
     ELSE [ch |-> ch, types |-> types, ret |-> FALSE,
           dispatched |-> <<>>, prevented |-> FALSE]

----------------------------------------------------------------------------
(* Removal of nodes and the BlockNode transform, part_002 lines 353-367 *)

isElementNode(k) == isBlockNode(k) \/ isBlockTextNode(k) \/ isRootNode(k)

\* the nodes attached to the root, in document order
attached(ch) == preorder(ch, RootKey)

RECURSIVE remove(_, _, _)
\* node.remove(preserveEmptyParent): the node leaves its parent; a parent
\* that cannot be empty and is left empty is removed in turn, unless the
\* caller preserves it
remove(ch, node, preserveEmptyParent) ==
  LET parent == getParent(ch, node)
      d == detach(ch, node)
  IN IF parent = Null THEN ch
     ELSE IF /\ ~preserveEmptyParent
             /\ ~isRootNode(parent)
             /\ isBlockNode(parent) /\ ~canBeEmpty
             /\ d[parent] = <<>>
       THEN remove(d, parent, FALSE)
     ELSE d

RECURSIVE detachAll(_, _)
detachAll(ch, nodes) ==
  IF nodes = <<>> THEN ch ELSE detachAll(detach(ch, Head(nodes)), Tail(nodes))

\* parent.splice(start, deleteCount, nodesToInsert) for nodes that are not
\* children of parent: the nodes leave their places and take the place of
\* the deleteCount children from index start; a parent that cannot be empty
\* and is left empty is removed
splice(ch, parent, start, deleteCount, nodesToInsert) ==
  LET d == detachAll(ch, nodesToInsert)
      old == d[parent]
      new == SubSeq(old, 1, start) \o nodesToInsert
               \o SubSeq(old, start + deleteCount + 1, Len(old))
      s == [d EXCEPT ![parent] = new]
  IN IF new = <<>> /\ isBlockNode(parent) /\ ~canBeEmpty
       THEN remove(s, parent, FALSE)
       ELSE s

\* the BlockNode transform, part_002 lines 353-367
blockTransform(ch, blockNode) ==
  LET blockChildren == ch[blockNode]
      prevBlock == getPreviousSibling(ch, blockNode)
  IN IF blockChildren # <<>> /\ ~isBlockTextNode(Head(blockChildren))
       THEN IF isBlockNode(prevBlock)
              THEN remove(append(ch, prevBlock, blockChildren), blockNode, FALSE)
            ELSE IF isElementNode(prevBlock)
              THEN splice(ch, getParent(ch, blockNode),
                          indexOf(ch[getParent(ch, blockNode)], blockNode) - 1,
                          1, blockChildren)
            ELSE ch
       ELSE ch

RECURSIVE applyTransforms(_)
\* the transforms run on the Blocks of the pending version until none of
\* them changes it
applyTransforms(ch) ==
  LET blocks == SelectSeq(attached(ch),
                          LAMBDA b : isBlockNode(b) /\ blockTransform(ch, b) # ch)
  IN IF blocks = <<>> THEN ch
     ELSE applyTransforms(blockTransform(ch, Head(blocks)))

----------------------------------------------------------------------------
(* The KEY_ENTER_COMMAND handler, part_002 lines 400-433 *)

\* the text a BlockText holds: BlockText textOf(b) holds the TextNode
\* leafOf(b) or nothing
leafOf(b) == 2 * MaxBlocks + b

LeafKeys == {leafOf(b) : b \in BlockKeys}

\* node.getFirstChild()
getFirstChild(ch, n) ==
  IF n \in DOMAIN ch /\ ch[n] # <<>> THEN Head(ch[n]) ELSE Null

\* node.getChildrenSize()
getChildrenSize(ch, n) == IF n \in DOMAIN ch THEN Len(ch[n]) ELSE 0

\* block.isListType(): the bulleted, numbered and to-do types
isListType(type) == type \in {"bulleted_list_item", "numbered_list_item", "to_do"}

\* block.isParagraphType()
isParagraphType(type) == type = "paragraph"

\* a KEY_ENTER_COMMAND handler that does not look at the children of the
\* BlockText
keyEnter_anyBlockText(ch, types, sel) ==
  LET block == getNearestBlockAncestorOrThrow(ch, sel.anchor)
      blockText == getFirstChild(ch, block)
      out == dispatchOutdent(ch, sel)
      nothing == [ch |-> ch, types |-> types, ret |-> FALSE,
                  dispatched |-> <<>>, prevented |-> FALSE]
  IN IF ~sel.has \/ ~isCollapsed(sel) \/ sel.anchorOffset # 0 THEN nothing
     ELSE IF ~isBlockTextNode(blockText) THEN nothing
     ELSE IF isListType(types[block])
       THEN [ch |-> out.ch, types |-> types, ret |-> out.ret,
             dispatched |-> <<"OUTDENT_CONTENT_COMMAND">>, prevented |-> TRUE]
     ELSE IF ~isParagraphType(types[block])
       THEN [ch |-> ch, types |-> setBlockType(types, block, "paragraph"),
             ret |-> TRUE, dispatched |-> <<>>, prevented |-> TRUE]
     ELSE nothing

\* the KEY_ENTER_COMMAND handler, part_002 lines 400-433
keyEnter(ch, types, sel) ==
  LET block == getNearestBlockAncestorOrThrow(ch, sel.anchor)
      blockText == getFirstChild(ch, block)
      out == dispatchOutdent(ch, sel)
      nothing == [ch |-> ch, types |-> types, ret |-> FALSE,
                  dispatched |-> <<>>, prevented |-> FALSE]
  IN IF ~sel.has \/ ~isCollapsed(sel) \/ sel.anchorOffset # 0 THEN nothing
     ELSE IF ~(isBlockTextNode(blockText) /\ getChildrenSize(ch, blockText) = 0)
       THEN nothing
     ELSE IF isListType(types[block])
       THEN [ch |-> out.ch, types |-> types, ret |-> out.ret,
             dispatched |-> <<"OUTDENT_CONTENT_COMMAND">>, prevented |-> TRUE]
     ELSE IF ~isParagraphType(types[block])
       THEN [ch |-> ch, types |-> setBlockType(types, block, "paragraph"),
             ret |-> TRUE, dispatched |-> <<>>, prevented |-> TRUE]
     ELSE nothing

----------------------------------------------------------------------------
(* BlockTextNode.insertBefore, part_001 lines 171-184 *)

\* target.insertBefore(n): n leaves its place and becomes the previous
\* sibling of target; a node is not inserted into its own subtree
LexicalNode_insertBefore(ch, target, n) ==
  LET d == detach(ch, n)
      p == getParent(d, target)
      i == indexOf(d[p], target)
  IN IF getParent(ch, target) = Null
       THEN [ch |-> ch, err |-> "Expected node to have a parent"]
     ELSE IF findMatchingParent(ch, target, {n}) # Null
       THEN [ch |-> ch, err |-> "node inserted into its own subtree"]
     ELSE [ch |-> [d EXCEPT ![p] = SubSeq(@, 1, i - 1) \o <<n>> \o SubSeq(@, i, Len(@))],
           err |-> "ok"]

\* BlockTextNode.insertBefore that makes every node a sibling of the
\* BlockText
BlockTextNode_insertBefore_literalSibling(ch, self, nodeToInsert) ==
  LexicalNode_insertBefore(ch, self, nodeToInsert)

\* BlockTextNode.insertBefore(nodeToInsert), part_001 lines 171-184
BlockTextNode_insertBefore(ch, self, nodeToInsert) ==
  LET parent == getParent(ch, self)
      blockToInsert == getParent(ch, nodeToInsert)
  IN IF isBlockNode(nodeToInsert)
       THEN IF parent = Null
              THEN [ch |-> ch, err |-> "Expected node to have a parent"]
            ELSE LexicalNode_insertBefore(ch, parent, nodeToInsert)
     ELSE IF isBlockTextNode(nodeToInsert)
       THEN IF parent = Null
              THEN [ch |-> ch, err |-> "Expected node to have a parent"]
            ELSE IF ~isBlockNode(parent)
              THEN [ch |-> ch, err |-> "parent is not block node"]
            ELSE IF blockToInsert = Null
              THEN [ch |-> ch, err |-> "Expected node to have a parent"]
            ELSE LexicalNode_insertBefore(ch, parent, blockToInsert)
     ELSE LexicalNode_insertBefore(ch, self, nodeToInsert)

----------------------------------------------------------------------------
(* The reconciler, part_005, and the per-node observers, part_002 *)

\* the keys of the nodes the reconciler sees, the root among them
RKeys == 0..(NumRKeys - 1)

\* the ids useComponentId hands out, part_002 lines 780-784
Cids == 1..MaxObservers

\* A node map gives a key the snapshot of its node, or undefined.  Two
\* snapshots of a key are the same object exactly if they are equal here.
Undefined == "undefined"

Snapshots == {"s1", "s2"}

\* the snapshot a clone of snapshot s is
cloneOf(s) == IF s = "s1" THEN "s2" ELSE "s1"

NoContext == [set |-> FALSE]

NoComponent == [mounted |-> FALSE, key |-> Null, reconcile |-> FALSE]

\* sequences of different elements of S
distinctSeqs(S) ==
  {q \in UNION {[1..n -> S] : n \in 0..Cardinality(S)} :
     \A i, j \in 1..Len(q) : i # j => q[i] # q[j]}

----------------------------------------------------------------------------
(* editor._keyToUpdatersMap: a Map from key to a Set of handlers, both in *)
(* insertion order; a handler is named by the id of its component          *)

hasEntry(reg, key) == \E i \in 1..Len(reg) : reg[i].key = key

\* _keyToUpdatersMap.get(key), <<>> for undefined
updatersOf(reg, key) ==
  IF hasEntry(reg, key)
    THEN reg[CHOOSE i \in 1..Len(reg) : reg[i].key = key].updaters
    ELSE <<>>

\* the registration effect of useNodeReconcile, part_002 lines 702-711
registerUpdater(reg, key, cid) ==
  IF hasEntry(reg, key)
    THEN [i \in 1..Len(reg) |->
            IF reg[i].key = key /\ cid \notin seqRange(reg[i].updaters)
              THEN [reg[i] EXCEPT !.updaters = Append(@, cid)]
              ELSE reg[i]]
    ELSE Append(reg, [key |-> key, updaters |-> <<cid>>])

\* the cleanup of the registration effect, part_002 lines 713-722
unregisterUpdater(reg, key, cid) ==
  LET removed == [i \in 1..Len(reg) |->
                    IF reg[i].key = key
                      THEN [reg[i] EXCEPT
                              !.updaters = SelectSeq(@, LAMBDA c : c # cid)]
                      ELSE reg[i]]
  IN SelectSeq(removed, LAMBDA e : e.key # key \/ Len(e.updaters) # 0)

----------------------------------------------------------------------------
(* reconcileRoot, part_005 lines 27-129 *)

\* setMutatedNode of LexicalUtils: the first mutation recorded for a key
\* stays, but 'created' after 'destroyed' becomes 'updated'
setMutatedNode(mutated, key, mutation) ==
  IF mutated[key] = "none" THEN [mutated EXCEPT ![key] = mutation]
  ELSE IF mutated[key] = "destroyed" /\ mutation = "created"
    THEN [mutated EXCEPT ![key] = "updated"]
  ELSE mutated

\* _setMutatedNode recording 'destroyed' without looking the key up in the
\* previous node map
ctxSetMutatedNode_destroyedUnchecked(st, prevNodeMap, nextNodeMap, key, type) ==
  IF type = "destroyed"
    THEN [st EXCEPT !.mutated = setMutatedNode(@, key, "destroyed")]
  ELSE IF nextNodeMap[key] = Undefined
    THEN [st EXCEPT !.err = "reconcileNode: node does not exist in nodeMap"]
  ELSE [st EXCEPT !.mutated = setMutatedNode(@, key, type)]

\* _setMutatedNode, part_005 lines 45-75, on the state of a commit
ctxSetMutatedNode(st, prevNodeMap, nextNodeMap, key, type) ==
  IF type = "destroyed"
    THEN IF prevNodeMap[key] # Undefined
           THEN [st EXCEPT !.mutated = setMutatedNode(@, key, "destroyed")]
           ELSE st
  ELSE IF nextNodeMap[key] = Undefined
    THEN [st EXCEPT !.err = "reconcileNode: node does not exist in nodeMap"]
  ELSE [st EXCEPT !.mutated = setMutatedNode(@, key, type)]

RECURSIVE invokeAll(_, _, _)
\* updaters.forEach((updater) => updater()): every handler asks for a
\* re-render of its component
invokeAll(st, key, updaters) ==
  IF updaters = <<>> THEN st
  ELSE invokeAll([st EXCEPT !.invoked = Append(@, [key |-> key, cid |-> Head(updaters)])],
                 key, Tail(updaters))

\* a visit on full rebuild that records 'updated' without comparing the
\* snapshots
visitFull_alwaysUpdated(st, prevNodeMap, nextNodeMap, entry) ==
  LET marked == ctxSetMutatedNode(st, prevNodeMap, nextNodeMap, entry.key, "updated")
  IN IF marked.err # "ok" THEN marked
     ELSE invokeAll(marked, entry.key, entry.updaters)

\* the visit of one key on full rebuild, part_005 lines 85-94
visitFull(st, prevNodeMap, nextNodeMap, entry) ==
  LET marked == IF prevNodeMap[entry.key] # nextNodeMap[entry.key]
                  THEN ctxSetMutatedNode(st, prevNodeMap, nextNodeMap, entry.key, "updated")
                  ELSE st
  IN IF marked.err # "ok" THEN marked
     ELSE invokeAll(marked, entry.key, entry.updaters)

\* the visit of one dirty key, part_005 lines 96-108 and 109-121
visitDirty(st, prevNodeMap, nextNodeMap, reg, key) ==
  LET marked == IF nextNodeMap[key] # Undefined /\ prevNodeMap[key] # nextNodeMap[key]
                  THEN ctxSetMutatedNode(st, prevNodeMap, nextNodeMap, key, "updated")
                  ELSE st
  IN IF marked.err # "ok" THEN marked
     ELSE invokeAll(marked, key, updatersOf(reg, key))

RECURSIVE visitAllFull(_, _, _, _)
visitAllFull(st, prevNodeMap, nextNodeMap, entries) ==
  IF entries = <<>> \/ st.err # "ok" THEN st
  ELSE visitAllFull(visitFull(st, prevNodeMap, nextNodeMap, Head(entries)),
                    prevNodeMap, nextNodeMap, Tail(entries))

RECURSIVE visitAllDirty(_, _, _, _, _)
visitAllDirty(st, prevNodeMap, nextNodeMap, reg, keys) ==
  IF keys = <<>> \/ st.err # "ok" THEN st
  ELSE visitAllDirty(visitDirty(st, prevNodeMap, nextNodeMap, reg, Head(keys)),
                     prevNodeMap, nextNodeMap, reg, Tail(keys))

\* the update effect of useNodeReconcile, part_002 lines 725-744, of
\* component cid, run with updateKey # 0 while the context is set
updateEffect(st, prevNodeMap, nextNodeMap, comps, doms, cid) ==
  LET key == comps[cid].key
      marked == IF prevNodeMap[key] # nextNodeMap[key]
                  THEN ctxSetMutatedNode(st, prevNodeMap, nextNodeMap, key, "updated")
                  ELSE st
  IN IF marked.err # "ok" THEN marked
     ELSE IF comps[cid].reconcile /\ doms[key] # Null
               /\ cid \notin marked.alreadyMutatedNodes
       THEN [marked EXCEPT
               !.alreadyMutatedNodes = @ \cup {cid},
               !.patches = Append(@, [fn |-> "updateBlockTextChildren",
                                      key |-> key, cid |-> cid])]
     ELSE marked

RECURSIVE runEffects(_, _, _, _, _, _, _)
\* the commit of the re-render flushSync ends with: every component whose
\* handler was invoked runs its update effect, once
runEffects(st, prevNodeMap, nextNodeMap, comps, doms, invoked, done) ==
  IF invoked = <<>> \/ st.err # "ok" THEN st
  ELSE IF Head(invoked).cid \in done \/ ~comps[Head(invoked).cid].mounted
    THEN runEffects(st, prevNodeMap, nextNodeMap, comps, doms, Tail(invoked), done)
  ELSE runEffects(updateEffect(st, prevNodeMap, nextNodeMap, comps, doms,
                               Head(invoked).cid),
                  prevNodeMap, nextNodeMap, comps, doms, Tail(invoked),
                  done \cup {Head(invoked).cid})

NoMutations == [k \in RKeys |-> "none"]

CommitStart ==
  [mutated |-> NoMutations, invoked |-> <<>>, patches |-> <<>>,
   alreadyMutatedNodes |-> {}, err |-> "ok", entered |-> FALSE]

\* reconcileRoot without the test of part_005 line 44: the context is set
\* and the visit loop flushed whatever the dirty sets hold
reconcileRoot_alwaysEntered(prevNodeMap, nextNodeMap, reg, comps, doms, dirtyType, dirtyElements, dirtyLeaves) ==
  LET start == [CommitStart EXCEPT !.entered = TRUE]
      visited ==
        IF dirtyType = "FULL_RECONCILE"
          THEN visitAllFull(start, prevNodeMap, nextNodeMap, reg)
          ELSE visitAllDirty(
                 visitAllDirty(start, prevNodeMap, nextNodeMap, reg, dirtyElements),
                 prevNodeMap, nextNodeMap, reg, dirtyLeaves)
  IN runEffects(visited, prevNodeMap, nextNodeMap, comps, doms, visited.invoked, {})

\* reconcileRoot, part_005 lines 27-129: the visit loop inside flushSync,
\* then the effects of the re-rendered components
reconcileRoot(prevNodeMap, nextNodeMap, reg, comps, doms, dirtyType, dirtyElements, dirtyLeaves) ==
  LET treatAllNodesAsDirty == dirtyType = "FULL_RECONCILE"
      start == [CommitStart EXCEPT !.entered = TRUE]
      visited ==
        IF treatAllNodesAsDirty
          THEN visitAllFull(start, prevNodeMap, nextNodeMap, reg)
          ELSE visitAllDirty(
                 visitAllDirty(start, prevNodeMap, nextNodeMap, reg, dirtyElements),
                 prevNodeMap, nextNodeMap, reg, dirtyLeaves)
  IN IF treatAllNodesAsDirty \/ Len(dirtyElements) > 0 \/ Len(dirtyLeaves) > 0
       THEN runEffects(visited, prevNodeMap, nextNodeMap, comps, doms,
                       visited.invoked, {})
       ELSE CommitStart

----------------------------------------------------------------------------
(* Observers that unmount and mount while a commit is flushed: the        *)
(* created/destroyed effect of useNodeReconcile, part_002 lines 746-775   *)

\* the ids useComponentId hands out where a commit renders
RenderCids == 1..RenderObservers

\* the body of the created/destroyed effect, part_002 lines 747-760, of the
\* component cid that has just mounted; ctx is editor._reconcilingContext
createdEffect(st, ctx, cid) ==
  LET key == st.comps[cid].key
      marked == ctxSetMutatedNode(st, ctx.prevNodeMap, ctx.nextNodeMap, key, "created")
  IN IF key = RootKey \/ ~ctx.set THEN st
     ELSE IF marked.err # "ok" THEN marked
     ELSE IF st.comps[cid].reconcile /\ st.doms[key] # Null
               /\ cid \notin marked.alreadyMutatedNodes
       THEN [marked EXCEPT
               !.alreadyMutatedNodes = @ \cup {cid},
               !.patches = Append(@, [fn |-> "createBlockTextChildren",
                                      key |-> key, cid |-> cid])]
     ELSE marked

\* the cleanup of the created/destroyed effect, part_002 lines 761-774, of
\* the component cid that is unmounting; the root's effect returned none
destroyedEffect(st, ctx, cid) ==
  LET key == st.comps[cid].key
      marked == ctxSetMutatedNode(st, ctx.prevNodeMap, ctx.nextNodeMap, key, "destroyed")
  IN IF key = RootKey \/ ~ctx.set THEN st
     ELSE IF st.comps[cid].reconcile /\ st.doms[key] # Null
               /\ cid \notin marked.alreadyMutatedNodes
       THEN [marked EXCEPT
               !.alreadyMutatedNodes = @ \cup {cid},
               !.patches = Append(@, [fn |-> "destroyBlockTextChildren",
                                      key |-> key, cid |-> cid])]
     ELSE marked

\* a component for the node of key mounts: its element is handed to the ref
\* (part_002 lines 676-688), the registration effect runs (lines 702-711),
\* the update effect finds updateKey = 0 (lines 726-727), then the
\* created/destroyed effect runs
mountComponent(st, ctx, key, reconcile) ==
  LET cid == st.used + 1
      placed == [st EXCEPT
                   !.used = cid,
                   !.comps[cid] = [mounted |-> TRUE, key |-> key, reconcile |-> reconcile],
                   !.doms = IF key # RootKey THEN [@ EXCEPT ![key] = cid] ELSE @,
                   !.reg = registerUpdater(@, key, cid)]
  IN createdEffect(placed, ctx, cid)

\* the component cid unmounts: the cleanups of its effects run in the order
\* of the effects (part_002 lines 713-722, then 761-774), then its ref is
\* called with null (lines 683-685)
unmountComponent(st, ctx, cid) ==
  LET key == st.comps[cid].key
      unregistered == [st EXCEPT !.reg = unregisterUpdater(@, key, cid)]
      destroyed == destroyedEffect(unregistered, ctx, cid)
  IN [destroyed EXCEPT
        !.comps[cid] = NoComponent,
        !.doms = IF key # RootKey THEN [@ EXCEPT ![key] = Null] ELSE @]

RECURSIVE unmountAll(_, _, _)
\* the components the render drops, lowest id first
unmountAll(st, ctx, cids) ==
  IF cids = {} THEN st
  ELSE LET cid == CHOOSE c \in cids : \A d \in cids : c <= d
       IN unmountAll(unmountComponent(st, ctx, cid), ctx, cids \ {cid})

RECURSIVE mountAll(_, _, _, _)
\* the components the render adds, one for each key of keys, lowest key
\* first; an effect that raises ends the flush
mountAll(st, ctx, keys, reconcileOf) ==
  IF keys = {} \/ st.err # "ok" THEN st
  ELSE LET key == CHOOSE k \in keys : \A j \in keys : k <= j
       IN mountAll(mountComponent(st, ctx, key, reconcileOf[key]), ctx,
                   keys \ {key}, reconcileOf)

\* the visit loop of reconcileRoot, part_005 lines 83-122
visitLoop(st, prevNodeMap, nextNodeMap, reg, dirtyType, dirtyElements, dirtyLeaves) ==
  IF dirtyType = "FULL_RECONCILE"
    THEN visitAllFull(st, prevNodeMap, nextNodeMap, reg)
    ELSE visitAllDirty(
           visitAllDirty(st, prevNodeMap, nextNodeMap, reg, dirtyElements),
           prevNodeMap, nextNodeMap, reg, dirtyLeaves)

\* the commit React makes of the render the visit loop asked for: the
\* cleanups of the dropped components, then the layout effects of the new
\* components and of the re-rendered ones
flushEffects(st, ctx, unmounts, mountKeys, reconcileOf) ==
  LET dropped == unmountAll(st, ctx, unmounts)
      added == mountAll(dropped, ctx, mountKeys, reconcileOf)
  IN runEffects(added, ctx.prevNodeMap, ctx.nextNodeMap, added.comps,
                added.doms, st.invoked, {})

\* reconcileRoot returning the mutated nodes as the visit loop leaves them,
\* before the render it asked for is flushed
reconcileRender_returnsBeforeFlush(prevNodeMap, nextNodeMap, reg, comps, doms, used, dirtyType, dirtyElements, dirtyLeaves, unmounts, mountKeys, reconcileOf) ==
  LET rest == [comps |-> comps, doms |-> doms, reg |-> reg, used |-> used, returned |-> 0]
      start == [CommitStart EXCEPT !.entered = TRUE] @@ rest
      visited == visitLoop(start, prevNodeMap, nextNodeMap, reg,
                           dirtyType, dirtyElements, dirtyLeaves)
  IN IF dirtyType = "FULL_RECONCILE" \/ Len(dirtyElements) > 0 \/ Len(dirtyLeaves) > 0
       THEN IF visited.err = "ok" THEN [visited EXCEPT !.returned = 1] ELSE visited
       ELSE [CommitStart @@ rest EXCEPT !.returned = 1]

\* reconcileRoot, part_005 lines 27-129, with the render it flushes: the
\* context is set (lines 76-81), flushSync runs the visit loop and the
\* effects of the render (lines 83-123), the context is cleared (line 125)
\* and the mutated nodes are returned (line 128); an exception leaves lines
\* 125 and 128 unreached
reconcileRender(prevNodeMap, nextNodeMap, reg, comps, doms, used, dirtyType, dirtyElements, dirtyLeaves, unmounts, mountKeys, reconcileOf) ==
  LET ctx == [set |-> TRUE, prevNodeMap |-> prevNodeMap, nextNodeMap |-> nextNodeMap]
      rest == [comps |-> comps, doms |-> doms, reg |-> reg, used |-> used, returned |-> 0]
      start == [CommitStart EXCEPT !.entered = TRUE] @@ rest
      visited == visitLoop(start, prevNodeMap, nextNodeMap, reg,
                           dirtyType, dirtyElements, dirtyLeaves)
      flushed == IF visited.err = "ok"
                   THEN flushEffects(visited, ctx, unmounts, mountKeys, reconcileOf)
                   ELSE visited
  IN IF dirtyType = "FULL_RECONCILE" \/ Len(dirtyElements) > 0 \/ Len(dirtyLeaves) > 0
       THEN IF flushed.err = "ok"
              THEN [flushed EXCEPT !.returned = 1]
              ELSE flushed
       ELSE [CommitStart @@ rest EXCEPT !.returned = 1]
----------------------------------------------------------------------------
(* Versions of the editor state and BlockNode.setBlockType, part_004 *)

\* A version maps a key to a node object.  The pending version starts as a
\* copy of the committed map, so both hold the same objects until a node
\* is cloned for the pending version.
VKeys == 1..NumVersionNodes

NoPending ==
  [active |-> FALSE, nodeMap |-> <<>>, cloneNotNeeded |-> {}, committed |-> <<>>]

\* what every key of a version reads as __blockType
blockTypesOf(objs, version) == [k \in VKeys |-> objs[version[k]]]

\* node.getLatest(): the object the active version holds under the key
getLatest(pending, key) == pending.nodeMap[key]

\* node.getWritable(): the object of the pending version, cloned from the
\* latest one unless this version has its own already
getWritable(objs, pending, key) ==
  IF key \in pending.cloneNotNeeded
    THEN [objs |-> objs, pending |-> pending, self |-> getLatest(pending, key)]
    ELSE [objs |-> Append(objs, objs[getLatest(pending, key)]),
          pending |-> [pending EXCEPT !.nodeMap[key] = Len(objs) + 1,
                                      !.cloneNotNeeded = @ \cup {key}],
          self |-> Len(objs) + 1]

\* BlockNode.setBlockType that writes to the writable clone, as part_001
\* lines 90-95 does
setBlockType_getWritable(objs, pending, key, type) ==
  LET w == getWritable(objs, pending, key)
  IN [objs |-> [w.objs EXCEPT ![w.self] = type], pending |-> w.pending]

\* BlockNode.setBlockType, part_004 lines 143-147
BlockNode_setBlockType(objs, pending, key, type) ==
  LET self == getLatest(pending, key)
  IN [objs |-> [objs EXCEPT ![self] = type], pending |-> pending]


----------------------------------------------------------------------------
(* The registration effect of useNodeReconcile and useNodeUpdate with the *)
(* Set objects it captures, part_002 lines 702-723, part_003 lines        *)
(* 1043-1069                                                              *)

ObserverIds == 1..MaxHandlers

ObservedKeys == 0..(NumObservedKeys - 1)

\* the Set objects that can be alive at once: one for every key and one for
\* every closure that holds a Set of its own
SetIds == 1..(MaxHandlers + NumObservedKeys)

NoObserver == [registered |-> FALSE, key |-> Null, set |-> Null]

\* the Set objects something refers to: the Map, or the closure of a
\* registered observer
referencedSets(map, obs) ==
  {map[k] : k \in ObservedKeys} \cup {obs[o].set : o \in ObserverIds}

\* new Set(): an object nothing refers to yet
newSet(map, obs) ==
  CHOOSE s \in SetIds :
    /\ s \notin referencedSets(map, obs)
    /\ \A t \in SetIds : t \notin referencedSets(map, obs) => s <= t

\* the Set objects nothing refers to any more are gone
collected(sets, map, obs) ==
  [s \in SetIds |-> IF s \in referencedSets(map, obs) THEN sets[s] ELSE {}]

\* the body of the registration effect, part_002 lines 703-711: the handler
\* of observer o is added to the Set the Map holds for key, a new Set if the
\* Map holds none; the closure keeps the Set
registerHandler(sets, map, obs, o, key) ==
  LET set == IF map[key] # Null THEN map[key] ELSE newSet(map, obs)
  IN [sets |-> [sets EXCEPT ![set] = @ \cup {o}],
      map |-> [map EXCEPT ![key] = set],
      obs |-> [obs EXCEPT ![o] = [registered |-> TRUE, key |-> key, set |-> set]]]

\* the cleanup that leaves a Set it has emptied in the Map
unregisterHandler_keepsEmptySet(sets, map, obs, o) ==
  LET set == obs[o].set
      left == [sets EXCEPT ![set] = @ \ {o}]
      gone == [obs EXCEPT ![o] = [registered |-> FALSE, key |-> obs[o].key, set |-> Null]]
  IN [sets |-> collected(left, map, gone), map |-> map, obs |-> gone]

\* the cleanup of the registration effect, part_002 lines 713-722: the
\* handler leaves the Set the closure kept, and if that Set is then empty
\* the Map's entry of the key is deleted
unregisterHandler(sets, map, obs, o) ==
  LET set == obs[o].set
      key == obs[o].key
      left == [sets EXCEPT ![set] = @ \ {o}]
      deleted == IF left[set] = {} THEN [map EXCEPT ![key] = Null] ELSE map
      gone == [obs EXCEPT ![o] = [registered |-> FALSE, key |-> key, set |-> Null]]
  IN [sets |-> collected(left, deleted, gone), map |-> deleted, obs |-> gone]

----------------------------------------------------------------------------
(* Strings, and simpleDiffStringWithCursor, part_002 lines 1212-1245 *)

\* the characters of the texts
Chars == {"a", "b"}

\* the strings of up to n characters, as sequences of characters
stringsUpTo(n) == UNION {[1..k -> Chars] : k \in 0..n}

\* String.prototype.slice(from, to): a negative index counts from the end,
\* both are clamped to the string, and an end before the start gives ''
slice(s, from, to) ==
  LET len == Len(s)
      clamp(i) == IF i < 0 THEN (IF len + i < 0 THEN 0 ELSE len + i) ELSE (IF i > len THEN len ELSE i)
  IN SubSeq(s, clamp(from) + 1, clamp(to))

\* the first loop, lines 1221-1228: left advances over the common prefix,
\* not beyond the cursor
RECURSIVE scanLeftToCursor(_, _, _, _)
scanLeftToCursor(a, b, cursor, left) ==
  IF left < Len(a) /\ left < Len(b) /\ a[left + 1] = b[left + 1] /\ left < cursor
  THEN scanLeftToCursor(a, b, cursor, left + 1)
  ELSE left

\* the second loop, lines 1229-1235: right advances over the common suffix
\* of what left has not taken
RECURSIVE scanRight(_, _, _, _)
scanRight(a, b, left, right) ==
  IF right + left < Len(a) /\ right + left < Len(b) /\ a[Len(a) - right] = b[Len(b) - right]
  THEN scanRight(a, b, left, right + 1)
  ELSE right

\* the third loop, lines 1237-1243: left advances further, past the cursor
RECURSIVE scanLeft(_, _, _, _)
scanLeft(a, b, left, right) ==
  IF right + left < Len(a) /\ right + left < Len(b) /\ a[left + 1] = b[left + 1]
  THEN scanLeft(a, b, left + 1, right)
  ELSE left

\* the diff whose second loop ignores what left has taken
simpleDiffStringWithCursor_overLeft(a, b, cursor) ==
  LET left1 == scanLeftToCursor(a, b, cursor, 0)
      right == scanRight(a, b, 0, 0)
      left == scanLeft(a, b, left1, right)
  IN [index |-> left, remove |-> Len(a) - left - right, insert |-> slice(b, left, Len(b) - right)]

\* simpleDiffStringWithCursor(a, b, cursor), part_002 lines 1212-1245
simpleDiffStringWithCursor(a, b, cursor) ==
  LET left1 == scanLeftToCursor(a, b, cursor, 0)
      right == scanRight(a, b, left1, 0)
      left == scanLeft(a, b, left1, right)
  IN [index |-> left, remove |-> Len(a) - left - right, insert |-> slice(b, left, Len(b) - right)]

----------------------------------------------------------------------------
(* RootComponent.handleHighlightUpdate for the highlights of one          *)
(* BlockText, part_002 lines 1069-1158                                    *)

\* array.splice(start, deleteCount, item) of Array.prototype: it removes
\* deleteCount elements from start, puts item in their place and RETURNS the
\* removed elements; a negative start counts from the end, and both
\* arguments are clamped to the array
arraySplice(array, start, deleteCount, item) ==
  LET len == Len(array)
      from == IF start < 0 THEN (IF len + start < 0 THEN 0 ELSE len + start) ELSE (IF start > len THEN len ELSE start)
      count == IF deleteCount < 0 THEN 0 ELSE (IF deleteCount > len - from THEN len - from ELSE deleteCount)
  IN [array |-> SubSeq(array, 1, from) \o <<item>> \o SubSeq(array, from + count + 1, len),
      returned |-> SubSeq(array, from + 1, from + count)]

\* highlight.text.split('').splice(index - highlight.start, remove,
\* insert).join(''), lines 1129-1132: the characters splice returns, joined
spliceHighlightText(highlight, index, count, inserted) ==
  arraySplice(highlight.text, index - highlight.start, count, inserted).returned

\* the loop body for one highlight, lines 1111-1144: the highlights it
\* pushes to newBlockTextHighlights, and whether it set
\* blockTextHighlightsChanged
updateHighlight(highlight, index, count, inserted) ==
  IF \/ index + count < highlight.start
     \/ (index + count = highlight.start /\ ~highlight.inclusiveStart)
  THEN [pushed |-> <<[highlight EXCEPT !.end = highlight.end - count + Len(inserted), !.start = highlight.start - count + Len(inserted)]>>,
        changed |-> TRUE]
  ELSE IF \/ (index + count = highlight.start /\ highlight.inclusiveStart)
          \/ index < highlight.end
          \/ (index = highlight.end /\ highlight.inclusiveEnd)
  THEN LET newText == spliceHighlightText(highlight, index, count, inserted)
       IN IF highlight.invalidateOnTextChange \/ newText = <<>>
          THEN [pushed |-> <<>>, changed |-> TRUE]
          ELSE [pushed |-> <<[highlight EXCEPT !.end = highlight.end - count + Len(inserted), !.text = newText]>>,
                changed |-> TRUE]
  ELSE [pushed |-> <<highlight>>, changed |-> FALSE]

\* the loop over the highlights of the BlockText, lines 1110-1145
RECURSIVE updateHighlights(_, _, _, _)
updateHighlights(blockTextHighlights, index, count, inserted) ==
  IF blockTextHighlights = <<>>
  THEN [pushed |-> <<>>, changed |-> FALSE]
  ELSE LET one == updateHighlight(Head(blockTextHighlights), index, count, inserted)
           others == updateHighlights(Tail(blockTextHighlights), index, count, inserted)
       IN [pushed |-> one.pushed \o others.pushed, changed |-> one.changed \/ others.changed]

\* handleHighlightUpdate, lines 1069-1158, for the highlights of one
\* BlockText with the texts getBlockTextContent gives for the previous and
\* the next node map: nothing happens without a reconciling context, without
\* highlights, for a BlockText that is not dirty and for equal texts;
\* cursor is Null when the selection is not a collapsed text point
handleHighlightUpdate(blockTextHighlights, reconciling, dirty, prevText, nextText, cursor) ==
  LET diff == simpleDiffStringWithCursor(prevText, nextText, IF cursor = Null THEN Len(nextText) ELSE cursor)
      updated == updateHighlights(blockTextHighlights, diff.index, diff.remove, diff.insert)
      skipped == \/ ~reconciling
                 \/ blockTextHighlights = <<>>
                 \/ ~dirty
                 \/ (diff.remove = 0 /\ diff.insert = <<>>)
  IN [highlights |-> IF ~skipped /\ updated.changed THEN updated.pushed ELSE blockTextHighlights,
      looped |-> ~skipped,
      diff |-> diff]

----------------------------------------------------------------------------
(* useNodeDOMSetter, part_002 lines 674-691 *)

HostKeys == 0..(NumHostKeys - 1)

HostViewIds == 1..MaxHostViews

\* the ref callback that leaves the Map alone when it is called with null
setBlockKeyToDOM_keepOnDetach(doms, nodeKey, elem) ==
  IF elem # Null
  THEN [doms EXCEPT ![nodeKey] = elem]
  ELSE doms

\* setBlockKeyToDOM(elem) of the component of nodeKey, lines 676-686: with
\* an element the Map's entry of nodeKey becomes the element, with null the
\* entry is deleted
setBlockKeyToDOM(doms, nodeKey, elem) ==
  IF elem # Null
  THEN [doms EXCEPT ![nodeKey] = elem]
  ELSE [doms EXCEPT ![nodeKey] = Null]
----------------------------------------------------------------------------
(* Specifications.  Each one runs one group of state and holds the others *)
(* at rest.                                                                *)

NoBlockSel ==
  [has |-> FALSE, anchor |-> Null, anchorOffset |-> 0, focus |-> Null,
   focusOffset |-> 0]

NoCmd ==
  [op |-> "none", args |-> <<>>, ret |-> FALSE, dispatched |-> <<>>,
   pre |-> [children |-> <<>>, blockType |-> <<>>]]

\* no child-block list in use
SpliceIdle ==
  /\ nodeMap = [k \in Keys |-> NewNode]
  /\ selection = NoSelection
  /\ hasGetFirstBlockChild = FALSE
  /\ calls = 0
  /\ lastSplice = NoSplice

\* no Block document in use
BlockIdle ==
  /\ children = [k \in ElementKeys |-> <<>>]
  /\ blockType = [k \in BlockKeys |-> defaultBlockType]
  /\ blockSel = NoBlockSel
  /\ created = 0
  /\ lastCmd = NoCmd

NoReconcile ==
  [op |-> "none", dirtyType |-> "NO_DIRTY_NODES", dirtyElements |-> <<>>,
   dirtyLeaves |-> <<>>, prevNodeMap |-> <<>>, nextNodeMap |-> <<>>,
   mutated |-> NoMutations, invoked |-> <<>>, patches |-> <<>>, err |-> "ok"]

\* no editor being reconciled
ReconcileIdle ==
  /\ editorNodeMap = [k \in RKeys |-> Undefined]
  /\ keyToUpdatersMap = <<>>
  /\ keyToDOMMap = [k \in RKeys |-> Null]
  /\ components = [c \in Cids |-> NoComponent]
  /\ cidsUsed = 0
  /\ reconcilingContext = NoContext
  /\ lastReconcile = NoReconcile


\* no version of the editor state in use
VersionIdle ==
  /\ objects = <<>>
  /\ editorState = <<>>
  /\ pendingEditorState = NoPending

\* no component holds a lock id
LockIdle ==
  /\ mutationLocks = {}
  /\ lockHolders = <<>>

\* no observer registry of Set objects in use
RegistryIdle ==
  /\ updaterSets = <<>>
  /\ setOfKey = <<>>
  /\ observers = <<>>

\* no text being compared
DiffIdle == lastDiff = <<>>

\* no highlighted BlockText
HighlightIdle ==
  /\ blockTextContent = <<>>
  /\ highlights = <<>>
  /\ lastHighlightUpdate = <<>>

HostIdle == hostViews = <<>>

HookIdle == RegistryIdle /\ DiffIdle /\ HighlightIdle /\ HostIdle

EditorIdle == VersionIdle /\ LockIdle /\ HookIdle
InitSplice ==
  /\ nodeMap = [k \in Keys |->
                 IF k = RootKey
                   THEN [NewNode EXCEPT !.firstBlock = 1, !.lastBlock = 1,
                                        !.blocksSize = 1]
                 ELSE IF k = 1 THEN [NewNode EXCEPT !.parent = RootKey]
                 ELSE NewNode]
  /\ selection = NoSelection
  /\ hasGetFirstBlockChild \in BOOLEAN
  /\ calls = 0
  /\ lastSplice = NoSplice
  /\ BlockIdle
  /\ ReconcileIdle
  /\ EditorIdle

\* one call this.spliceChildBlocks(start, deleteCount, nodesToInsert), with
\* any arguments.  An exception ends the update: nothing runs after it.
SpliceChildBlocksAny(self, start, deleteCount, nodesToInsert, limit) ==
  /\ lastSplice.err = "ok"
  /\ calls < limit
  /\ keysInOrder(nodeMap, self, nodesToInsert)
  /\ \E r \in {spliceChildBlocks(nodeMap, selection, self, start, deleteCount,
                                 nodesToInsert, hasGetFirstBlockChild)} :
        /\ nodeMap' = r.m
        /\ selection' = r.sel
        /\ lastSplice' =
             [op |-> "splice", err |-> r.err,
              args |-> <<self, start, deleteCount, nodesToInsert>>,
              selfAttached |-> isAttached(nodeMap, self),
              anchorHit |-> pointInRange(nodeMap, selection, selection.anchor, r.rem),
              focusHit |-> pointInRange(nodeMap, selection, selection.focus, r.rem),
              pre |-> nodeMap]
  /\ calls' = calls + 1
  /\ UNCHANGED <<hasGetFirstBlockChild, blockVars, reconcileVars, editorVars>>

\* a call with 0 <= start and start + deleteCount <= size that inserts no
\* ancestor of this
SpliceChildBlocks(self, start, deleteCount, nodesToInsert) ==
  /\ start + deleteCount <= nodeMap[self].blocksSize
  /\ \A i \in 1..Len(nodesToInsert) : ~hasAncestor(nodeMap, self, nodesToInsert[i])
  /\ SpliceChildBlocksAny(self, start, deleteCount, nodesToInsert, MaxCalls)

\* the user places the selection on nodes of the document
SetSelection(a, f) ==
  /\ lastSplice.err = "ok"
  /\ isAttached(nodeMap, a) /\ isAttached(nodeMap, f)
  /\ selection' = [has |-> TRUE, anchor |-> a, focus |-> f]
  /\ lastSplice' = NoSplice
  /\ UNCHANGED <<nodeMap, hasGetFirstBlockChild, calls, blockVars, reconcileVars, editorVars>>

NextSplice ==
  \/ \E self \in Nodes, start \in 0..NumNodes, deleteCount \in 0..NumNodes,
        nodesToInsert \in InsertArrays :
       SpliceChildBlocks(self, start, deleteCount, nodesToInsert)
  \/ \E a \in Nodes, f \in Nodes : SetSelection(a, f)

SpecSplice == InitSplice /\ [][NextSplice]_vars


NextSpliceAny ==
  \/ \E self \in Nodes, start \in 0..NumNodes, deleteCount \in 0..NumNodes,
        nodesToInsert \in InsertArrays :
       SpliceChildBlocksAny(self, start, deleteCount, nodesToInsert, MaxCallsAny)
  \/ \E a \in Nodes, f \in Nodes : SetSelection(a, f)

SpecSpliceAny == InitSplice /\ [][NextSpliceAny]_vars
----------------------------------------------------------------------------
(* SpecBlock: editing a document of Blocks *)

\* the selections a user can place: both points inside attached BlockTexts
attachedTexts(ch) == {t \in TextKeys : t \in seqRange(attached(ch))}

\* a document of n top-level Blocks, each holding its BlockText
flatDocument(n) ==
  [k \in ElementKeys |->
     IF k = RootKey THEN [i \in 1..n |-> i]
     ELSE IF k <= n THEN <<textOf(k)>>
     ELSE <<>>]

\* A document of MaxBlocks top-level Blocks, or of one fewer (with room for
\* a new Block), all created with the default block type.
InitBlock ==
  /\ \E n \in (MaxBlocks - 1)..MaxBlocks :
       /\ created = n
       /\ children = flatDocument(n)
  /\ blockType = [k \in BlockKeys |-> defaultBlockType]
  /\ blockSel = NoBlockSel
  /\ lastCmd = NoCmd
  /\ SpliceIdle
  /\ ReconcileIdle
  /\ EditorIdle

\* A document of up to TypedBlocks top-level Blocks; one of them was created
\* with a block type of its own, the others with the default.
InitBlockType ==
  /\ \E n \in 1..TypedBlocks :
       /\ created = n
       /\ children = flatDocument(n)
       /\ \E b \in 1..n, t \in blockTypes :
            blockType = [k \in BlockKeys |-> IF k = b THEN t ELSE defaultBlockType]
  /\ blockSel = NoBlockSel
  /\ lastCmd = NoCmd
  /\ SpliceIdle
  /\ ReconcileIdle
  /\ EditorIdle

\* the record of an operation: its name, arguments, result, the commands it
\* dispatched and the document it ran on
cmdRecord(op, args, ret, dispatched) ==
  [op |-> op, args |-> args, ret |-> ret, dispatched |-> dispatched,
   pre |-> [children |-> children, blockType |-> blockType]]

\* the user places the selection
SetBlockSelection(a, ao, f, fo) ==
  /\ blockSel' = [has |-> TRUE, anchor |-> a, anchorOffset |-> ao,
                  focus |-> f, focusOffset |-> fo]
  /\ lastCmd' = NoCmd
  /\ UNCHANGED <<children, blockType, created, spliceVars, reconcileVars, editorVars>>

\* self.insertAfter(nodeToInsert) with nodeToInsert a new BlockText, as
\* insertNewAfter calls it (part_001 lines 162-169)
InsertAfter(self, capacity) ==
  /\ created < capacity
  /\ \E r \in {BlockTextNode_insertAfter(children, blockType, self,
                                         textOf(created + 1), created + 1)} :
       /\ children' = applyTransforms(r.ch)
       /\ blockType' = r.types
       /\ lastCmd' = cmdRecord("insertAfter",
                               <<self, textOf(created + 1), created + 1>>,
                               r.err = "ok", <<>>)
  /\ created' = created + 1
  /\ UNCHANGED <<blockSel, spliceVars, reconcileVars, editorVars>>

\* INDENT_CONTENT_COMMAND is dispatched
IndentContent ==
  /\ \E r \in {handleIndentAndOutdent(children, blockSel, TRUE)} :
       /\ children' = applyTransforms(r.ch)
       /\ lastCmd' = cmdRecord("INDENT_CONTENT_COMMAND", <<>>, r.ret, <<>>)
  /\ UNCHANGED <<blockType, blockSel, created, spliceVars, reconcileVars, editorVars>>

\* OUTDENT_CONTENT_COMMAND is dispatched
OutdentContent ==
  /\ \E r \in {handleIndentAndOutdent(children, blockSel, FALSE)} :
       /\ children' = applyTransforms(r.ch)
       /\ lastCmd' = cmdRecord("OUTDENT_CONTENT_COMMAND", <<>>, r.ret, <<>>)
  /\ UNCHANGED <<blockType, blockSel, created, spliceVars, reconcileVars, editorVars>>

\* KEY_BACKSPACE_COMMAND is dispatched
KeyBackspace ==
  /\ \E r \in {keyBackspace(children, blockType, blockSel)} :
       /\ children' = applyTransforms(r.ch)
       /\ blockType' = r.types
       /\ lastCmd' = cmdRecord("KEY_BACKSPACE_COMMAND", <<>>, r.ret, r.dispatched)
  /\ UNCHANGED <<blockSel, created, spliceVars, reconcileVars, editorVars>>

\* node.remove(preserveEmptyParent) in an update of its own; the selection
\* is placed anew afterwards
Remove(node, preserveEmptyParent) ==
  /\ children' = applyTransforms(remove(children, node, preserveEmptyParent))
  /\ blockSel' = NoBlockSel
  /\ lastCmd' = cmdRecord("remove", <<node, preserveEmptyParent>>, TRUE, <<>>)
  /\ UNCHANGED <<blockType, created, spliceVars, reconcileVars, editorVars>>

SetAnyBlockSelection ==
  \E a \in attachedTexts(children), f \in attachedTexts(children),
     ao \in Offsets, fo \in Offsets :
    /\ (a # f) => (ao = 0 /\ fo = 0)
    /\ SetBlockSelection(a, ao, f, fo)

NextBlock ==
  \/ SetAnyBlockSelection
  \/ \E self \in attachedTexts(children) : InsertAfter(self, MaxBlocks)
  \/ IndentContent
  \/ OutdentContent
  \/ KeyBackspace

SpecBlock == InitBlock /\ [][NextBlock]_vars

NextBlockType ==
  \/ SetAnyBlockSelection
  \/ \E self \in attachedTexts(children) : InsertAfter(self, TypedBlocks)
  \/ IndentContent
  \/ OutdentContent
  \/ KeyBackspace

SpecBlockType == InitBlockType /\ [][NextBlockType]_vars


\* A document of RemoveBlocks top-level Blocks, all created with the default
\* block type.
InitBlockRemove ==
  /\ created = RemoveBlocks
  /\ children = flatDocument(RemoveBlocks)
  /\ blockType = [k \in BlockKeys |-> defaultBlockType]
  /\ blockSel = NoBlockSel
  /\ lastCmd = NoCmd
  /\ SpliceIdle
  /\ ReconcileIdle
  /\ EditorIdle

\* the Block commands together with the removal of nodes
NextBlockRemove ==
  \/ SetAnyBlockSelection
  \/ IndentContent
  \/ OutdentContent
  \/ KeyBackspace
  \/ \E node \in seqRange(attached(children)) \ {RootKey}, preserveEmptyParent \in BOOLEAN :
       Remove(node, preserveEmptyParent)

SpecBlockRemove == InitBlockRemove /\ [][NextBlockRemove]_vars

----------------------------------------------------------------------------
(* SpecEnter: the Enter key in a document whose BlockTexts hold text or *)
(* are empty                                                             *)

\* a document of n top-level Blocks; the BlockTexts of the Blocks in
\* withText hold one TextNode each
textDocument(n, withText) ==
  [k \in ElementKeys \cup TextKeys |->
     IF k = RootKey THEN [i \in 1..n |-> i]
     ELSE IF k \in 1..n THEN <<textOf(k)>>
     ELSE IF \E b \in withText : k = textOf(b) THEN <<leafOf(k - MaxBlocks)>>
     ELSE <<>>]

\* A document of up to TypedBlocks top-level Blocks; one of them was created
\* with a block type of its own, and any of the BlockTexts is empty.
InitEnter ==
  /\ \E n \in 1..TypedBlocks :
       /\ created = n
       /\ \E withText \in SUBSET (1..n) : children = textDocument(n, withText)
       /\ \E b \in 1..n, t \in blockTypes :
            blockType = [k \in BlockKeys |-> IF k = b THEN t ELSE defaultBlockType]
  /\ blockSel = NoBlockSel
  /\ lastCmd = NoCmd
  /\ SpliceIdle
  /\ ReconcileIdle
  /\ EditorIdle

\* the points a user can place: in an attached TextNode, or in an attached
\* BlockText
attachedPoints(ch) == seqRange(attached(ch)) \cap (TextKeys \cup LeafKeys)

\* the user places a caret, or a range from the start of one node to the
\* start of another; a point in a BlockText counts its children
SetEnterSelection ==
  \E a \in attachedPoints(children), f \in attachedPoints(children),
     ao \in Offsets, fo \in Offsets :
    /\ IF a = f THEN ao = fo ELSE ao = 0 /\ fo = 0
    /\ a \in TextKeys => ao <= getChildrenSize(children, a)
    /\ SetBlockSelection(a, ao, f, fo)

\* KEY_ENTER_COMMAND is dispatched
KeyEnter ==
  /\ \E r \in {keyEnter(children, blockType, blockSel)} :
       /\ children' = applyTransforms(r.ch)
       /\ blockType' = r.types
       /\ lastCmd' = cmdRecord("KEY_ENTER_COMMAND", <<>>, r.ret, r.dispatched)
  /\ UNCHANGED <<blockSel, created, spliceVars, reconcileVars, editorVars>>

NextEnter ==
  \/ SetEnterSelection
  \/ IndentContent
  \/ KeyEnter

SpecEnter == InitEnter /\ [][NextEnter]_vars

----------------------------------------------------------------------------
(* SpecInsertBefore: nodes inserted before a BlockText *)

\* A document of InsertBlocks - 1 top-level Blocks and one more Block that
\* was created with its BlockText and is in no child list yet.
InitInsertBefore ==
  /\ created = InsertBlocks
  /\ children = [flatDocument(InsertBlocks - 1) EXCEPT ![InsertBlocks] = <<textOf(InsertBlocks)>>]
  /\ blockType = [k \in BlockKeys |-> defaultBlockType]
  /\ blockSel = NoBlockSel
  /\ lastCmd = NoCmd
  /\ SpliceIdle
  /\ ReconcileIdle
  /\ EditorIdle

\* self.insertBefore(nodeToInsert) in an update of its own; an error rolls
\* the update back
InsertBefore(self, nodeToInsert) ==
  /\ \E r \in {BlockTextNode_insertBefore(children, self, nodeToInsert)} :
       /\ children' = IF r.err = "ok" THEN applyTransforms(r.ch) ELSE children
       /\ lastCmd' = cmdRecord("insertBefore", <<self, nodeToInsert>>,
                               r.err = "ok", <<>>)
  /\ UNCHANGED <<blockType, blockSel, created, spliceVars, reconcileVars, editorVars>>

\* the Blocks and BlockTexts created so far
createdNodes == (1..created) \cup {textOf(b) : b \in 1..created}

\* the user places the caret at the start of a BlockText
SetCaret ==
  \E a \in attachedTexts(children) : SetBlockSelection(a, 0, a, 0)

NextInsertBefore ==
  \/ SetCaret
  \/ IndentContent
  \/ \E self \in attachedTexts(children), nodeToInsert \in createdNodes :
       InsertBefore(self, nodeToInsert)

SpecInsertBefore == InitInsertBefore /\ [][NextInsertBefore]_vars


----------------------------------------------------------------------------
(* SpecDepth: indent and outdent with selections over several nodes *)

\* A document of DepthBlocks top-level paragraphs; any of the BlockTexts
\* holds a TextNode.
InitDepth ==
  /\ created = DepthBlocks
  /\ \E withText \in SUBSET (1..DepthBlocks) :
       children = textDocument(DepthBlocks, withText)
  /\ blockType = [k \in BlockKeys |-> defaultBlockType]
  /\ blockSel = NoBlockSel
  /\ lastCmd = NoCmd
  /\ SpliceIdle
  /\ ReconcileIdle
  /\ EditorIdle

\* the user selects from the start of one node to the start of another, or
\* places the caret
SetNodeSelection ==
  \E a \in attachedPoints(children), f \in attachedPoints(children) :
    SetBlockSelection(a, 0, f, 0)

NextDepth ==
  \/ SetNodeSelection
  \/ IndentContent
  \/ OutdentContent

SpecDepth == InitDepth /\ [][NextDepth]_vars

----------------------------------------------------------------------------
(* SpecSetBlockType: BlockNode.setBlockType called with any string *)

\* the values the callers here hand to setBlockType: the default block type,
\* a heading, two list types, and a string that is no block type
blockTypeValues == {"paragraph", "h3", "bulleted_list_item", "to_do", "quote"}

\* block.setBlockType(value) in an update of its own; a value that is no
\* block type raises 'Invalid block type' (part_001 line 91)
SetBlockTypeTo(block, value) ==
  /\ block \in seqRange(attached(children))
  /\ blockType' = setBlockType(blockType, block, value)
  /\ children' = applyTransforms(children)
  /\ lastCmd' = cmdRecord("setBlockType", <<block, value>>, isBlockType(value), <<>>)
  /\ UNCHANGED <<blockSel, created, spliceVars, reconcileVars, editorVars>>

NextSetBlockType ==
  \/ \E block \in BlockKeys, value \in blockTypeValues : SetBlockTypeTo(block, value)
  \/ \E self \in attachedTexts(children) : InsertAfter(self, TypedBlocks)

SpecSetBlockType == InitBlockType /\ [][NextSetBlockType]_vars
----------------------------------------------------------------------------
(* SpecReconcile: observers mount and unmount, commits are reconciled *)

\* an editor state with a root and some of the other nodes, no observers
InitReconcile ==
  /\ editorNodeMap \in {m \in [RKeys -> {Undefined, "s1"}] : m[RootKey] = "s1"}
  /\ keyToUpdatersMap = <<>>
  /\ keyToDOMMap = [k \in RKeys |-> Null]
  /\ components = [c \in Cids |-> NoComponent]
  /\ cidsUsed = 0
  /\ reconcilingContext = NoContext
  /\ lastReconcile = NoReconcile
  /\ SpliceIdle
  /\ BlockIdle
  /\ EditorIdle

\* A component for the node of key mounts outside a commit: the element it
\* renders is handed to the ref of useNodeDOMSetter (part_002 lines 676-688),
\* then the registration effect runs (lines 702-711); the other effects of
\* useNodeReconcile find updateKey = 0 and no reconciling context.  The root
\* component passes reconcile = false and sets no ref (lines 577-582).
Mount(key, reconcile) ==
  /\ lastReconcile.op = "none"
  /\ cidsUsed < MaxObservers
  /\ editorNodeMap[key] # Undefined
  /\ (key = RootKey) => ~reconcile
  /\ LET cid == cidsUsed + 1
     IN /\ components' = [components EXCEPT ![cid] =
                            [mounted |-> TRUE, key |-> key, reconcile |-> reconcile]]
        /\ keyToDOMMap' = IF key # RootKey THEN [keyToDOMMap EXCEPT ![key] = cid]
                          ELSE keyToDOMMap
        /\ keyToUpdatersMap' = registerUpdater(keyToUpdatersMap, key, cid)
  /\ cidsUsed' = cidsUsed + 1
  /\ lastReconcile' = NoReconcile
  /\ UNCHANGED <<editorNodeMap, reconcilingContext, spliceVars, blockVars, editorVars>>

\* A component unmounts outside a commit: its ref is called with null
\* (part_002 lines 683-685) and the cleanup of the registration effect runs
\* (lines 713-722).
Unmount(cid) ==
  /\ lastReconcile.op = "none"
  /\ components[cid].mounted
  /\ components' = [components EXCEPT ![cid] = NoComponent]
  /\ keyToDOMMap' = IF components[cid].key # RootKey
                      THEN [keyToDOMMap EXCEPT ![components[cid].key] = Null]
                      ELSE keyToDOMMap
  /\ keyToUpdatersMap' =
       unregisterUpdater(keyToUpdatersMap, components[cid].key, cid)
  /\ lastReconcile' = NoReconcile
  /\ UNCHANGED <<editorNodeMap, cidsUsed, reconcilingContext, spliceVars, blockVars, editorVars>>

\* the node maps an update can leave: the root stays, any other node stays
\* as it is, is cloned, is removed or is created
nextNodeMaps(prevNodeMap) ==
  {m \in [RKeys -> Snapshots \cup {Undefined}] :
     /\ m[RootKey] # Undefined
     /\ \A k \in RKeys :
          \/ m[k] = prevNodeMap[k]
          \/ m[k] = Undefined
          \/ prevNodeMap[k] = Undefined /\ m[k] = "s1"
          \/ prevNodeMap[k] # Undefined /\ m[k] = cloneOf(prevNodeMap[k])}

\* the dirty sets an update can leave: keys in the order they were marked;
\* a node is an element or a leaf, so no key is in both sets
DirtyKeys == distinctSeqs(RKeys)

\* The committed state: snapshots are compared within one commit only, so
\* the snapshot every node has once the commit is over is named s1 again.
committed(nodeMap_) ==
  [k \in RKeys |-> IF nodeMap_[k] = Undefined THEN Undefined ELSE "s1"]

\* An update is committed: reconcileRoot(prevEditorState, nextEditorState,
\* editor, dirtyType, dirtyElements, dirtyLeaves) runs to its end or to an
\* exception; an exception leaves line 125 unreached and ends the session.
Reconcile(nextNodeMap, dirtyType, dirtyElements, dirtyLeaves) ==
  /\ lastReconcile.op = "none"
  /\ \E r \in {reconcileRoot(editorNodeMap, nextNodeMap, keyToUpdatersMap,
                             components, keyToDOMMap, dirtyType,
                             dirtyElements, dirtyLeaves)} :
       /\ lastReconcile' =
            [op |-> "reconcileRoot", dirtyType |-> dirtyType,
             dirtyElements |-> dirtyElements, dirtyLeaves |-> dirtyLeaves,
             prevNodeMap |-> editorNodeMap, nextNodeMap |-> nextNodeMap,
             mutated |-> r.mutated, invoked |-> r.invoked,
             patches |-> r.patches, err |-> r.err, entered |-> r.entered]
       /\ reconcilingContext' =
            IF r.err = "ok" THEN NoContext
            ELSE [set |-> TRUE, prevNodeMap |-> editorNodeMap,
                  nextNodeMap |-> nextNodeMap,
                  alreadyMutatedNodes |-> r.alreadyMutatedNodes]
       /\ editorNodeMap' = IF r.err = "ok" THEN committed(nextNodeMap)
                           ELSE editorNodeMap
  /\ UNCHANGED <<keyToUpdatersMap, keyToDOMMap, components, cidsUsed,
                 spliceVars, blockVars, editorVars>>

\* reconcileRoot has returned the mutated nodes (part_005 line 128) and its
\* caller has delivered them: the commit is over
EndCommit ==
  /\ lastReconcile.op = "reconcileRoot"
  /\ lastReconcile.err = "ok"
  /\ lastReconcile' = NoReconcile
  /\ UNCHANGED <<editorNodeMap, keyToUpdatersMap, keyToDOMMap, components,
                 cidsUsed, reconcilingContext, spliceVars, blockVars, editorVars>>

NextReconcile ==
  \/ \E key \in RKeys, reconcile \in BOOLEAN : Mount(key, reconcile)
  \/ \E cid \in Cids : Unmount(cid)
  \/ /\ lastReconcile.op = "none"
     /\ \E nextNodeMap \in nextNodeMaps(editorNodeMap),
           dirtyType \in {"HAS_DIRTY_NODES", "FULL_RECONCILE"},
           dirtyElements \in DirtyKeys, dirtyLeaves \in DirtyKeys :
          /\ seqRange(dirtyElements) \cap seqRange(dirtyLeaves) = {}
          /\ Reconcile(nextNodeMap, dirtyType, dirtyElements, dirtyLeaves)
  \/ EndCommit

SpecReconcile == InitReconcile /\ [][NextReconcile]_vars

----------------------------------------------------------------------------
(* SpecRender: the commit of a rendered editor, whose render unmounts and *)
(* mounts observers, and the effects that run after it has returned      *)

\* the observers of an editor that has rendered editorNodeMap_: one for the
\* root, and one for each node reconcileOf is defined on
RECURSIVE rendered(_, _, _)
rendered(st, keys, reconcileOf) ==
  IF keys = {} THEN st
  ELSE LET key == CHOOSE k \in keys : \A j \in keys : k <= j
       IN rendered(mountComponent(st, NoContext, key, reconcileOf[key]),
                   keys \ {key}, reconcileOf)

NoObservers ==
  [mutated |-> NoMutations, invoked |-> <<>>, patches |-> <<>>,
   alreadyMutatedNodes |-> {}, err |-> "ok", entered |-> FALSE,
   comps |-> [c \in RenderCids |-> NoComponent],
   doms |-> [k \in RKeys |-> Null], reg |-> <<>>, used |-> 0]

\* an editor state with a root and some of the other nodes, rendered: the
\* root has its observer and so have some of the other nodes
InitRender ==
  /\ editorNodeMap \in {m \in [RKeys -> {Undefined, "s1"}] : m[RootKey] = "s1"}
  /\ \E observed \in SUBSET {k \in RKeys \ {RootKey} : editorNodeMap[k] # Undefined} :
       \E reconcileOf \in [observed -> BOOLEAN] :
         \E r \in {rendered(NoObservers, observed \cup {RootKey},
                             reconcileOf @@ [k \in {RootKey} |-> FALSE])} :
           /\ components = r.comps
           /\ keyToDOMMap = r.doms
           /\ keyToUpdatersMap = r.reg
           /\ cidsUsed = r.used
  /\ reconcilingContext = NoContext
  /\ lastReconcile = NoReconcile
  /\ SpliceIdle
  /\ BlockIdle
  /\ EditorIdle

\* what the effects of a component that mounts or unmounts outside
\* reconcileRoot find: the registry, the host views and, if the context is
\* still set, the mutated nodes and the already-processed set of its commit
outsideCommit ==
  [mutated |-> lastReconcile.mutated, invoked |-> lastReconcile.invoked,
   patches |-> lastReconcile.patches,
   alreadyMutatedNodes |-> IF reconcilingContext.set
                             THEN reconcilingContext.alreadyMutatedNodes ELSE {},
   err |-> "ok", entered |-> FALSE, comps |-> components,
   doms |-> keyToDOMMap, reg |-> keyToUpdatersMap, used |-> cidsUsed]

\* what is kept of a commit once an effect has run after its return: the
\* mutated nodes it returned, and what r has made of them and of the patches
afterReturn(r) ==
  [op |-> "reconcileRoot", dirtyType |-> "NO_DIRTY_NODES",
   prevNodeMap |-> <<>>, nextNodeMap |-> <<>>, mutated |-> r.mutated,
   invoked |-> <<>>, patches |-> r.patches, err |-> r.err, returned |-> 1,
   unmountKeys |-> {}, mountKeys |-> {}, atReturn |-> lastReconcile.atReturn,
   late |-> TRUE]

\* A component mounts after reconcileRoot has returned its mutated nodes.
RenderMount(key, reconcile) ==
  /\ lastReconcile.op = "reconcileRoot"
  /\ lastReconcile.err = "ok"
  /\ cidsUsed < RenderObservers
  /\ editorNodeMap[key] # Undefined
  /\ (key = RootKey) => ~reconcile
  /\ \E r \in {mountComponent(outsideCommit, reconcilingContext, key, reconcile)} :
       /\ components' = r.comps
       /\ keyToDOMMap' = r.doms
       /\ keyToUpdatersMap' = r.reg
       /\ cidsUsed' = r.used
       /\ lastReconcile' = afterReturn(r)
  /\ UNCHANGED <<editorNodeMap, reconcilingContext, spliceVars, blockVars, editorVars>>

\* A component unmounts after reconcileRoot has returned its mutated nodes.
RenderUnmount(cid) ==
  /\ lastReconcile.op = "reconcileRoot"
  /\ lastReconcile.err = "ok"
  /\ components[cid].mounted
  /\ \E r \in {unmountComponent(outsideCommit, reconcilingContext, cid)} :
       /\ components' = r.comps
       /\ keyToDOMMap' = r.doms
       /\ keyToUpdatersMap' = r.reg
       /\ lastReconcile' = afterReturn(r)
  /\ UNCHANGED <<editorNodeMap, cidsUsed, reconcilingContext, spliceVars, blockVars, editorVars>>

\* the components of nodes other than the root
mountedNonRoot(comps) ==
  {c \in DOMAIN comps : comps[c].mounted /\ comps[c].key # RootKey}

\* the nodes observers are mounted for are elements (the root, Blocks,
\* BlockTexts, inline elements: part_002 lines 462-672), so the commits of
\* this specification have no dirty leaves
\*
\* An update is committed and the render reconcileRoot flushes drops the
\* components unmounts and adds one component for each key of mountKeys.
\* React renders the children of a component from the next editor state, so
\* a new component is for a node of the next node map that has no component
\* left, and components change only below a component that re-rendered and
\* stays.
ReconcileRender(nextNodeMap, dirtyType, dirtyElements, dirtyLeaves, unmounts, mountKeys, reconcileOf) ==
  /\ lastReconcile.op = "none"
  /\ Cardinality(mountKeys) <= RenderObservers - cidsUsed
  /\ \A k \in mountKeys :
       /\ nextNodeMap[k] # Undefined
       /\ \A c \in RenderCids :
            (components[c].mounted /\ components[c].key = k) => c \in unmounts
  /\ \E r \in {reconcileRender(editorNodeMap, nextNodeMap, keyToUpdatersMap,
                               components, keyToDOMMap, cidsUsed, dirtyType,
                               dirtyElements, dirtyLeaves, unmounts, mountKeys,
                               reconcileOf)} :
       /\ (unmounts # {} \/ mountKeys # {})
            => \E i \in 1..Len(r.invoked) : r.invoked[i].cid \notin unmounts
       /\ lastReconcile' =
            [op |-> "reconcileRoot", dirtyType |-> dirtyType,
             prevNodeMap |-> editorNodeMap, nextNodeMap |-> nextNodeMap,
             mutated |-> r.mutated, invoked |-> r.invoked,
             patches |-> r.patches, err |-> r.err, returned |-> r.returned,
             unmountKeys |-> {components[c].key : c \in unmounts},
             mountKeys |-> mountKeys, atReturn |-> r.mutated, late |-> FALSE]
       /\ reconcilingContext' =
            IF r.err = "ok" THEN NoContext
            ELSE [set |-> TRUE, prevNodeMap |-> editorNodeMap,
                  nextNodeMap |-> nextNodeMap,
                  alreadyMutatedNodes |-> r.alreadyMutatedNodes]
       /\ editorNodeMap' = IF r.err = "ok" THEN committed(nextNodeMap)
                           ELSE editorNodeMap
       /\ components' = r.comps
       /\ keyToDOMMap' = r.doms
       /\ keyToUpdatersMap' = r.reg
       /\ cidsUsed' = r.used
  /\ UNCHANGED <<spliceVars, blockVars, editorVars>>

NextRender ==
  \/ \E key \in RKeys, reconcile \in BOOLEAN : RenderMount(key, reconcile)
  \/ \E cid \in RenderCids : RenderUnmount(cid)
  \/ /\ lastReconcile.op = "none"
     /\ \E nextNodeMap \in nextNodeMaps(editorNodeMap),
           dirtyType \in {"HAS_DIRTY_NODES", "FULL_RECONCILE"},
           dirtyElements \in DirtyKeys,
           unmounts \in SUBSET mountedNonRoot(components),
           mountKeys \in SUBSET (RKeys \ {RootKey}) :
          \E reconcileOf \in [mountKeys -> BOOLEAN] :
            ReconcileRender(nextNodeMap, dirtyType, dirtyElements, <<>>,
                            unmounts, mountKeys, reconcileOf)

SpecRender == InitRender /\ [][NextRender]_vars

----------------------------------------------------------------------------
(* SpecSetMutatedNode: _setMutatedNode, part_005 lines 45-75, called with *)
(* any key and any type while a commit is open                            *)

AnyNodeMaps == [RKeys -> Snapshots \cup {Undefined}]

MutationTypes == {"created", "updated", "destroyed"}

\* reconcileRoot has set the context for two node maps (part_005 lines
\* 76-81) and nothing is recorded yet
InitSetMutatedNode ==
  /\ editorNodeMap \in AnyNodeMaps
  /\ keyToUpdatersMap = <<>>
  /\ keyToDOMMap = [k \in RKeys |-> Null]
  /\ components = [c \in Cids |-> NoComponent]
  /\ cidsUsed = 0
  /\ \E nextNodeMap \in AnyNodeMaps :
       /\ reconcilingContext =
            [set |-> TRUE, prevNodeMap |-> editorNodeMap,
             nextNodeMap |-> nextNodeMap, alreadyMutatedNodes |-> {}]
       /\ lastReconcile =
            [op |-> "setMutatedNode", key |-> Null, type |-> "none",
             before |-> NoMutations, mutated |-> NoMutations, err |-> "ok"]
  /\ SpliceIdle
  /\ BlockIdle
  /\ EditorIdle

\* editor._reconcilingContext.setMutatedNode(key, type); an exception ends
\* the commit
SetMutatedNode(key, type) ==
  /\ lastReconcile.op = "setMutatedNode"
  /\ lastReconcile.err = "ok"
  /\ \E r \in {ctxSetMutatedNode(lastReconcile, reconcilingContext.prevNodeMap,
                                 reconcilingContext.nextNodeMap, key, type)} :
       lastReconcile' = [r EXCEPT !.key = key, !.type = type,
                                  !.before = lastReconcile.mutated]
  /\ UNCHANGED <<editorNodeMap, keyToUpdatersMap, keyToDOMMap, components,
                 cidsUsed, reconcilingContext, spliceVars, blockVars, editorVars>>

NextSetMutatedNode ==
  \E key \in RKeys, type \in MutationTypes : SetMutatedNode(key, type)

SpecSetMutatedNode == InitSetMutatedNode /\ [][NextSetMutatedNode]_vars

----------------------------------------------------------------------------
(* SpecVersion: updates of the editor state that set block types *)

\* a committed version of NumVersionNodes Blocks of any block types, each
\* an object of its own
InitVersion ==
  /\ objects \in [VKeys -> blockTypes]
  /\ editorState = [k \in VKeys |-> k]
  /\ pendingEditorState = NoPending
  /\ SpliceIdle
  /\ BlockIdle
  /\ ReconcileIdle
  /\ LockIdle
  /\ HookIdle

\* editor.update begins: the pending version is a copy of the committed map
BeginUpdate ==
  /\ ~pendingEditorState.active
  /\ pendingEditorState' =
       [active |-> TRUE, nodeMap |-> editorState, cloneNotNeeded |-> {},
        committed |-> blockTypesOf(objects, editorState)]
  /\ UNCHANGED <<objects, editorState, spliceVars, blockVars, reconcileVars, lockVars, hookVars>>

\* a mutator of the update calls getWritable on a node, as spliceChildBlocks
\* does at part_004 line 156
GetWritable(key) ==
  /\ pendingEditorState.active
  /\ key \notin pendingEditorState.cloneNotNeeded
  /\ Len(objects) < MaxObjects
  /\ \E w \in {getWritable(objects, pendingEditorState, key)} :
       /\ objects' = w.objs
       /\ pendingEditorState' = w.pending
  /\ UNCHANGED <<editorState, spliceVars, blockVars, reconcileVars, lockVars, hookVars>>

\* the update calls node.setBlockType(type)
SetBlockType(key, type) ==
  /\ pendingEditorState.active
  /\ \E r \in {BlockNode_setBlockType(objects, pendingEditorState, key, type)} :
       /\ objects' = r.objs
       /\ pendingEditorState' = r.pending
  /\ UNCHANGED <<editorState, spliceVars, blockVars, reconcileVars, lockVars, hookVars>>

\* the update ends: the pending version becomes the committed one, and the
\* objects no version holds any more are dropped
CommitUpdate ==
  /\ pendingEditorState.active
  /\ objects' = blockTypesOf(objects, pendingEditorState.nodeMap)
  /\ editorState' = [k \in VKeys |-> k]
  /\ pendingEditorState' = NoPending
  /\ UNCHANGED <<spliceVars, blockVars, reconcileVars, lockVars, hookVars>>

NextVersion ==
  \/ BeginUpdate
  \/ \E key \in VKeys : GetWritable(key)
  \/ \E key \in VKeys, type \in blockTypes : SetBlockType(key, type)
  \/ CommitUpdate

SpecVersion == InitVersion /\ [][NextVersion]_vars


----------------------------------------------------------------------------
(* SpecLock: the mutation lock of the Block components, part_002 lines *)
(* 494-495 and 786-797                                                 *)

\* the lock ids: one per component, the id useComponentId gave it
LockIds == 1..MaxLockHolders

\* editor.lockMutation(lockId)
lockMutation(locks, lockId) == locks \cup {lockId}

\* editor.unlockMutation(lockId)
unlockMutation(locks, lockId) == locks \ {lockId}

\* useLock when the component mounts: the insertion effect runs, the layout
\* effect has no body
useLock_mount(locks, lockId) == unlockMutation(locks, lockId)

\* useLock when the component is rendered again: the insertion effect runs,
\* then the cleanup of the layout effect of the render before
useLock_update(locks, lockId) == lockMutation(unlockMutation(locks, lockId), lockId)

\* useLock when the component unmounts: the cleanup of the layout effect
\* runs; the insertion effect has no cleanup
useLock_unmount(locks, lockId) == lockMutation(locks, lockId)

InitLock ==
  /\ mutationLocks = {}
  /\ lockHolders = [c \in LockIds |-> "none"]
  /\ SpliceIdle
  /\ BlockIdle
  /\ ReconcileIdle
  /\ VersionIdle
  /\ HookIdle

\* a Block component mounts
LockMount(c) ==
  /\ lockHolders[c] = "none"
  /\ lockHolders' = [lockHolders EXCEPT ![c] = "mounted"]
  /\ mutationLocks' = useLock_mount(mutationLocks, c)
  /\ UNCHANGED <<spliceVars, blockVars, reconcileVars, versionVars, hookVars>>

\* a Block component is rendered again
LockUpdate(c) ==
  /\ lockHolders[c] = "mounted"
  /\ mutationLocks' = useLock_update(mutationLocks, c)
  /\ UNCHANGED <<lockHolders, spliceVars, blockVars, reconcileVars, versionVars, hookVars>>

\* a Block component unmounts
LockUnmount(c) ==
  /\ lockHolders[c] = "mounted"
  /\ lockHolders' = [lockHolders EXCEPT ![c] = "unmounted"]
  /\ mutationLocks' = useLock_unmount(mutationLocks, c)
  /\ UNCHANGED <<spliceVars, blockVars, reconcileVars, versionVars, hookVars>>

NextLock ==
  \/ \E c \in LockIds : LockMount(c)
  \/ \E c \in LockIds : LockUpdate(c)
  \/ \E c \in LockIds : LockUnmount(c)

\* a commit React has scheduled is carried out
SpecLock == InitLock /\ [][NextLock]_vars /\ WF_vars(NextLock)

----------------------------------------------------------------------------
(* SpecRegistry: observers register and unregister their handlers *)

InitRegistry ==
  /\ updaterSets = [s \in SetIds |-> {}]
  /\ setOfKey = [k \in ObservedKeys |-> Null]
  /\ observers = [o \in ObserverIds |-> NoObserver]
  /\ SpliceIdle
  /\ BlockIdle
  /\ ReconcileIdle
  /\ VersionIdle
  /\ LockIdle
  /\ DiffIdle
  /\ HighlightIdle
  /\ HostIdle

\* a component with the hook mounts: its registration effect runs
Register(o, key) ==
  /\ ~observers[o].registered
  /\ \E r \in {registerHandler(updaterSets, setOfKey, observers, o, key)} :
       /\ updaterSets' = r.sets
       /\ setOfKey' = r.map
       /\ observers' = r.obs
  /\ UNCHANGED <<spliceVars, blockVars, reconcileVars, versionVars, lockVars, diffVars, highlightVars, hostVars>>

\* the component unmounts: the cleanup of its registration effect runs
Unregister(o) ==
  /\ observers[o].registered
  /\ \E r \in {unregisterHandler(updaterSets, setOfKey, observers, o)} :
       /\ updaterSets' = r.sets
       /\ setOfKey' = r.map
       /\ observers' = r.obs
  /\ UNCHANGED <<spliceVars, blockVars, reconcileVars, versionVars, lockVars, diffVars, highlightVars, hostVars>>

\* the component is rendered with another nodeKey: the effect's dependencies
\* [editor, nodeKey] changed, so its cleanup runs and then the effect again
Rekey(o, key) ==
  /\ observers[o].registered
  /\ observers[o].key # key
  /\ \E u \in {unregisterHandler(updaterSets, setOfKey, observers, o)} :
       \E r \in {registerHandler(u.sets, u.map, u.obs, o, key)} :
         /\ updaterSets' = r.sets
         /\ setOfKey' = r.map
         /\ observers' = r.obs
  /\ UNCHANGED <<spliceVars, blockVars, reconcileVars, versionVars, lockVars, diffVars, highlightVars, hostVars>>

NextRegistry ==
  \/ \E o \in ObserverIds, key \in ObservedKeys : Register(o, key)
  \/ \E o \in ObserverIds : Unregister(o)
  \/ \E o \in ObserverIds, key \in ObservedKeys : Rekey(o, key)

SpecRegistry == InitRegistry /\ [][NextRegistry]_vars

----------------------------------------------------------------------------
(* SpecDiff: simpleDiffStringWithCursor applied to two texts and a cursor *)

Cursors == 0..(MaxTextLen + 1)

InitDiff ==
  /\ \E a \in stringsUpTo(MaxTextLen), b \in stringsUpTo(MaxTextLen), cursor \in Cursors :
       lastDiff = [a |-> a, b |-> b, cursor |-> cursor, done |-> FALSE, index |-> 0, remove |-> 0, insert |-> <<>>]
  /\ SpliceIdle
  /\ BlockIdle
  /\ ReconcileIdle
  /\ VersionIdle
  /\ LockIdle
  /\ RegistryIdle
  /\ HighlightIdle
  /\ HostIdle

\* the call simpleDiffStringWithCursor(a, b, cursor)
Diff ==
  /\ ~lastDiff.done
  /\ \E d \in {simpleDiffStringWithCursor(lastDiff.a, lastDiff.b, lastDiff.cursor)} :
       lastDiff' = [lastDiff EXCEPT !.done = TRUE, !.index = d.index, !.remove = d.remove, !.insert = d.insert]
  /\ UNCHANGED <<spliceVars, blockVars, reconcileVars, versionVars, lockVars, registryVars, highlightVars, hostVars>>

NextDiff == Diff

SpecDiff == InitDiff /\ [][NextDiff]_vars

----------------------------------------------------------------------------
(* SpecHighlight: the highlights of one BlockText and a change of its text *)

\* the highlights a text of the BlockText can have: a range of the text,
\* the text of the range, and the three flags
highlightsOf(text) ==
  {[start |-> r[1], end |-> r[2], text |-> slice(text, r[1], r[2]), inclusiveStart |-> is, inclusiveEnd |-> ie, invalidateOnTextChange |-> inv] :
     r \in {q \in (0..Len(text)) \X (0..Len(text)) : q[1] < q[2]}, is \in BOOLEAN, ie \in BOOLEAN, inv \in BOOLEAN}

NoHighlightUpdate == [done |-> FALSE]

InitHighlight ==
  /\ blockTextContent \in stringsUpTo(MaxTextLen)
  /\ \E n \in 0..MaxHighlights : highlights \in [1..n -> highlightsOf(blockTextContent)]
  /\ lastHighlightUpdate = NoHighlightUpdate
  /\ SpliceIdle
  /\ BlockIdle
  /\ ReconcileIdle
  /\ VersionIdle
  /\ LockIdle
  /\ RegistryIdle
  /\ DiffIdle
  /\ HostIdle

\* the root's update handler runs: with a reconciling context or without,
\* the BlockText dirty or not, its text now nextText, the selection a
\* collapsed text point at cursor or something else (Null)
HandleHighlightUpdate(reconciling, dirty, nextText, cursor) ==
  /\ ~lastHighlightUpdate.done
  /\ \E u \in {handleHighlightUpdate(highlights, reconciling, dirty, blockTextContent, nextText, cursor)} :
       /\ highlights' = u.highlights
       /\ lastHighlightUpdate' = [done |-> TRUE, looped |-> u.looped, index |-> u.diff.index, remove |-> u.diff.remove, insert |-> u.diff.insert, before |-> highlights]
  /\ blockTextContent' = IF reconciling /\ dirty THEN nextText ELSE blockTextContent
  /\ UNCHANGED <<spliceVars, blockVars, reconcileVars, versionVars, lockVars, registryVars, diffVars, hostVars>>

NextHighlight ==
  \E reconciling \in BOOLEAN, dirty \in BOOLEAN, nextText \in stringsUpTo(MaxTextLen) :
    \E cursor \in (0..Len(nextText)) \cup {Null} :
      HandleHighlightUpdate(reconciling, dirty, nextText, cursor)

SpecHighlight == InitHighlight /\ [][NextHighlight]_vars

----------------------------------------------------------------------------
(* SpecHostView: the ref callbacks of the commits of the rendering.       *)
(* A commit first detaches the refs of what it removes (ref(null)) and    *)
(* then attaches the refs of what it has put in place (ref(element)); a   *)
(* key is rendered by one component, which has one element.               *)

\* the keys that have an attached host view
attachedKeys(views) == {views.keyOf[v] : v \in HostViewIds} \ {Null}

InitHostView ==
  /\ hostViews = [keyOf |-> [v \in HostViewIds |-> Null], phase |-> "detach", detached |-> {}]
  /\ keyToDOMMap = [k \in HostKeys |-> Null]
  /\ editorNodeMap = [k \in RKeys |-> Undefined]
  /\ keyToUpdatersMap = <<>>
  /\ components = [c \in Cids |-> NoComponent]
  /\ cidsUsed = 0
  /\ reconcilingContext = NoContext
  /\ lastReconcile = NoReconcile
  /\ SpliceIdle
  /\ BlockIdle
  /\ VersionIdle
  /\ LockIdle
  /\ RegistryIdle
  /\ DiffIdle
  /\ HighlightIdle

\* the commit detaches the ref of host view v: the component's ref callback
\* is called with null
Detach(v) ==
  /\ hostViews.phase = "detach"
  /\ hostViews.keyOf[v] # Null
  /\ keyToDOMMap' = setBlockKeyToDOM(keyToDOMMap, hostViews.keyOf[v], Null)
  /\ hostViews' = [hostViews EXCEPT !.keyOf[v] = Null, !.detached = @ \cup {hostViews.keyOf[v]}]
  /\ UNCHANGED <<editorNodeMap, keyToUpdatersMap, components, cidsUsed, reconcilingContext, lastReconcile>>
  /\ UNCHANGED <<spliceVars, blockVars, versionVars, lockVars, registryVars, diffVars, highlightVars>>

\* the commit has made its removals and goes on to attach refs
BeginAttach ==
  /\ hostViews.phase = "detach"
  /\ hostViews' = [hostViews EXCEPT !.phase = "attach"]
  /\ UNCHANGED <<reconcileVars, spliceVars, blockVars, versionVars, lockVars, registryVars, diffVars, highlightVars>>

\* the commit attaches the ref of host view v, the element of the component
\* of nodeKey: the component's ref callback is called with the element
Attach(nodeKey, v) ==
  /\ hostViews.phase = "attach"
  /\ hostViews.keyOf[v] = Null
  /\ nodeKey \notin attachedKeys(hostViews)
  /\ keyToDOMMap' = setBlockKeyToDOM(keyToDOMMap, nodeKey, v)
  /\ hostViews' = [hostViews EXCEPT !.keyOf[v] = nodeKey]
  /\ UNCHANGED <<editorNodeMap, keyToUpdatersMap, components, cidsUsed, reconcilingContext, lastReconcile>>
  /\ UNCHANGED <<spliceVars, blockVars, versionVars, lockVars, registryVars, diffVars, highlightVars>>

\* the commit is over; the next one begins
EndHostCommit ==
  /\ hostViews.phase = "attach"
  /\ hostViews' = [hostViews EXCEPT !.phase = "detach", !.detached = {}]
  /\ UNCHANGED <<reconcileVars, spliceVars, blockVars, versionVars, lockVars, registryVars, diffVars, highlightVars>>

NextHostView ==
  \/ \E v \in HostViewIds : Detach(v)
  \/ BeginAttach
  \/ \E nodeKey \in HostKeys, v \in HostViewIds : Attach(nodeKey, v)
  \/ EndHostCommit

SpecHostView == InitHostView /\ [][NextHostView]_vars
----------------------------------------------------------------------------
(* Claims about the child-block list *)

RECURSIVE nextChain(_, _, _)
\* the keys met by following __next from node, at most fuel of them
nextChain(m, node, fuel) ==
  IF node = Null \/ fuel = 0 THEN <<>>
  ELSE <<node>> \o nextChain(m, m[node].next, fuel - 1)

\* the child blocks of a parent: the nodes whose __parent is the parent
childBlocksOf(m, parent) == {k \in Nodes : m[k].parent = parent}

\* the child-block list of a parent is consistent
listConsistent(m, parent) ==
  LET size == m[parent].blocksSize
      chain == nextChain(m, m[parent].firstBlock, NumNodes + 1)
      first == m[parent].firstBlock
      last == m[parent].lastBlock
  IN /\ size = Cardinality(childBlocksOf(m, parent))
     /\ Len(chain) = size
     /\ {chain[i] : i \in 1..Len(chain)} = childBlocksOf(m, parent)
     /\ \A i, j \in 1..Len(chain) : i # j => chain[i] # chain[j]
     /\ (size = 0) => (first = Null /\ last = Null)
     /\ (size > 0) => /\ first # Null /\ m[first].prev = Null
                      /\ last # Null /\ m[last].next = Null
                      /\ chain[size] = last

\* C1: after every successful spliceChildBlocks call the child-block list of
\* every parent is consistent: the first child block has prev = null, the
\* last has next = null, and following next from firstBlock blocksSize times
\* visits every child block once, ends at lastBlock and then reaches null.
C1_ListConsistentAfterSplice ==
  lastSplice.err = "ok" => \A parent \in Nodes : listConsistent(nodeMap, parent)

\* C4: after a successful spliceChildBlocks call on an attached parent that
\* deleted a range holding the anchor's (focus's) node or an ancestor of it,
\* the anchor (focus) references a node that is still in the tree.
C4_SelectionStaysInTree ==
  (lastSplice.op = "splice" /\ lastSplice.err = "ok" /\ lastSplice.selfAttached)
    => /\ lastSplice.anchorHit => isAttached(nodeMap, selection.anchor)
       /\ lastSplice.focusHit => isAttached(nodeMap, selection.focus)

\* a call deleted the anchor's node and the anchor was moved to another node
C4_Witness ==
  /\ lastSplice.op = "splice" /\ lastSplice.err = "ok" /\ lastSplice.selfAttached
  /\ lastSplice.anchorHit
  /\ selection.anchor \in Nodes
  /\ isAttached(nodeMap, selection.anchor)


\* the last call was given this parent, or an ancestor of it, to insert
insertsAncestor ==
  /\ lastSplice.op = "splice"
  /\ \E i \in 1..Len(lastSplice.args[4]) :
       \/ lastSplice.args[4][i] = lastSplice.args[1]
       \/ hasAncestor(lastSplice.pre, lastSplice.args[1], lastSplice.args[4][i])

\* C14: a spliceChildBlocks call on X whose nodesToInsert holds X or an
\* ancestor of X fails with an error, and no node is its own ancestor.
C14_CyclicInsertionFails ==
  /\ insertsAncestor => lastSplice.err # "ok"
  /\ \A n \in Nodes : ~hasAncestor(nodeMap, n, n)

\* C15: a spliceChildBlocks call that fails with 'append: attempting to
\* append self' or 'splice: sibling not found' leaves every field of every
\* node as it was before the call.
C15_FailedSpliceChangesNothing ==
  (/\ lastSplice.op = "splice"
   /\ lastSplice.err \in {"append: attempting to append self",
                          "splice: sibling not found"})
    => nodeMap = lastSplice.pre

\* the child blocks of a parent as getChildBlocks walks them
chainOf(m, parent) == nextChain(m, m[parent].firstBlock, NumNodes + 1)

\* C16: after a successful spliceChildBlocks call no key is twice in a child
\* list or in two child lists, and the child list and size of every parent
\* an inserted node was taken from are consistent.
C16_EveryKeyOnce ==
  (lastSplice.op = "splice" /\ lastSplice.err = "ok")
    => /\ \A p \in Keys :
            \A i, j \in 1..Len(chainOf(nodeMap, p)) :
              i # j => chainOf(nodeMap, p)[i] # chainOf(nodeMap, p)[j]
       /\ \A p, q \in Keys :
            p # q => \A i \in 1..Len(chainOf(nodeMap, p)) :
                       \A j \in 1..Len(chainOf(nodeMap, q)) :
                         chainOf(nodeMap, p)[i] # chainOf(nodeMap, q)[j]
       /\ \A i \in 1..Len(lastSplice.args[4]) :
            LET oldParent == lastSplice.pre[lastSplice.args[4][i]].parent
            IN oldParent # Null => listConsistent(nodeMap, oldParent)


\* the last call deleted child blocks of an attached parent other than the
\* root and left it with none
parentEmptied ==
  /\ lastSplice.op = "splice" /\ lastSplice.err = "ok"
  /\ lastSplice.selfAttached
  /\ lastSplice.args[1] # RootKey
  /\ lastSplice.args[3] > 0
  /\ lastSplice.pre[lastSplice.args[1]].blocksSize - lastSplice.args[3]
       + Len(lastSplice.args[4]) = 0

C25_EmptiedParentRemovedUnderSelection ==
  (parentEmptied /\ selection.has) => ~isAttached(nodeMap, lastSplice.args[1])

C29_ChildBlocksAreTheChildren ==
  lastSplice.err = "ok"
    => \A p \in Nodes :
         LET blocks == BlockNode_getChildBlocks(nodeMap, p)
         IN /\ seqRange(blocks) = childBlocksOf(nodeMap, p)
            /\ Len(blocks) = Cardinality(childBlocksOf(nodeMap, p))
----------------------------------------------------------------------------
(* Claims about Block documents *)

\* the document the last operation ran on
preChildren == lastCmd.pre.children

preBlockType == lastCmd.pre.blockType

\* the Block that held the BlockText a call of insertAfter was made on
splitBlock == getParent(preChildren, lastCmd.args[1])

insertAfterDone == lastCmd.op = "insertAfter" /\ lastCmd.ret

\* C2: t1.insertAfter(t2), t1 the BlockText of Block B with children
\* [t1, s1..sn], leaves B with children [t1] and puts a new Block B' with
\* children [t2, s1..sn] immediately after B among the children of B's
\* parent: apart from t2 the children of B and B' together are the original
\* children of B in their order.
C2_InsertAfterSplitsBlock ==
  insertAfterDone =>
    LET t1 == lastCmd.args[1]
        t2 == lastCmd.args[2]
        newBlock == lastCmd.args[3]
        B == splitBlock
        parent == getParent(preChildren, B)
        at == indexOf(preChildren[parent], B)
    IN /\ children[B] = <<t1>>
       /\ children[newBlock] = <<t2>> \o Tail(preChildren[B])
       /\ children[B] \o Tail(children[newBlock]) = preChildren[B]
       /\ children[parent] =
            SubSeq(preChildren[parent], 1, at) \o <<newBlock>>
              \o SubSeq(preChildren[parent], at + 1, Len(preChildren[parent]))

\* insertAfter split a Block that had child Blocks after its BlockText
C2_Witness ==
  /\ insertAfterDone
  /\ Len(preChildren[splitBlock]) >= 2
  /\ Len(children[lastCmd.args[3]]) >= 2
  /\ children[splitBlock] = <<lastCmd.args[1]>>

\* C3: the Block that insertAfter creates has the block type of the split
\* Block B when that is bulleted_list_item, numbered_list_item or to_do, and
\* paragraph for every other block type of B; B keeps its block type.
C3_NewBlockType ==
  insertAfterDone =>
    LET B == splitBlock
        newBlock == lastCmd.args[3]
    IN /\ blockType[newBlock] =
            (IF preBlockType[B] \in {"bulleted_list_item", "numbered_list_item", "to_do"}
               THEN preBlockType[B] ELSE "paragraph")
       /\ blockType[B] = preBlockType[B]

\* insertAfter split a to_do Block
C3_Witness ==
  /\ insertAfterDone
  /\ preBlockType[splitBlock] = "to_do"
  /\ blockType[lastCmd.args[3]] = "to_do"

\* the Blocks a command works on: the Blocks of the BlockTexts selected
selectedBlocks(ch, sel) ==
  {getParent(ch, t) : t \in {n \in seqRange(getNodes(ch, sel)) : isBlockTextNode(n)}}

\* P, B1, B2, B3 are consecutive top-level Blocks of the document before the
\* command, and the selected top-level Blocks are B1, B2, B3
threeSelected(P, B1, B2, B3) ==
  /\ blockSel.has
  /\ \E i \in 1..Len(preChildren[RootKey]) - 3 :
       SubSeq(preChildren[RootKey], i, i + 3) = <<P, B1, B2, B3>>
  /\ {b \in selectedBlocks(preChildren, blockSel) :
        getParent(preChildren, b) = RootKey} = {B1, B2, B3}

\* s is the sequence head followed by elements among which a, b, c appear in
\* this order
followsInOrder(s, head, a, b, c) ==
  /\ Len(s) >= Len(head)
  /\ SubSeq(s, 1, Len(head)) = head
  /\ \E i, j, k \in (Len(head) + 1)..Len(s) :
       i < j /\ j < k /\ s[i] = a /\ s[j] = b /\ s[k] = c

\* C7: the indent command on three selected sibling Blocks B1, B2, B3 at
\* depth 0, B1 right after a sibling Block P, makes all three children of P,
\* after the children P had, in the order B1, B2, B3.
C7_IndentThreeBlocks ==
  lastCmd.op = "INDENT_CONTENT_COMMAND" =>
    \A P, B1, B2, B3 \in BlockKeys :
      threeSelected(P, B1, B2, B3) =>
        /\ getParent(children, B1) = P
        /\ getParent(children, B2) = P
        /\ getParent(children, B3) = P
        /\ followsInOrder(children[P], preChildren[P], B1, B2, B3)

\* three selected Blocks went under the Block before them
C7_Witness ==
  /\ lastCmd.op = "INDENT_CONTENT_COMMAND"
  /\ \E P, B1, B2, B3 \in BlockKeys :
       /\ threeSelected(P, B1, B2, B3)
       /\ getParent(children, B3) = P
       /\ followsInOrder(children[P], preChildren[P], B1, B2, B3)

\* the selection holds one Block only, and no Block precedes it among its
\* siblings
onlyBlockWithoutPrevious ==
  /\ blockSel.has
  /\ \E b \in BlockKeys :
       /\ selectedBlocks(preChildren, blockSel) = {b}
       /\ ~isBlockNode(getPreviousSibling(preChildren, b))

\* C8 (as the code has it): the indent command on a selection whose only
\* Block has no preceding Block sibling leaves the tree unchanged, and the
\* handler returns true: the command is reported as handled.
C8_IndentFirstBlockHandled ==
  (lastCmd.op = "INDENT_CONTENT_COMMAND" /\ onlyBlockWithoutPrevious)
    => (children = preChildren /\ lastCmd.ret = TRUE)

\* the indent command ran on a first Block
C8_Witness ==
  /\ lastCmd.op = "INDENT_CONTENT_COMMAND"
  /\ onlyBlockWithoutPrevious
  /\ children = preChildren
  /\ lastCmd.ret

\* C8 as stated: the indent command on a selection whose only Block has no
\* preceding Block sibling leaves the tree unchanged and the handler returns
\* false.
C8_IndentFirstBlockNotHandled ==
  (lastCmd.op = "INDENT_CONTENT_COMMAND" /\ onlyBlockWithoutPrevious)
    => (children = preChildren /\ lastCmd.ret = FALSE)

\* the selection is a collapsed range selection at offset 0
collapsedAtStart ==
  blockSel.has /\ isCollapsed(blockSel) /\ blockSel.anchorOffset = 0

\* the Block the selection anchor is in
anchorBlock == getParent(preChildren, blockSel.anchor)

\* C9: backspace with a collapsed selection at offset 0 in a Block whose
\* block type is not paragraph sets the block type to paragraph and returns
\* true, dispatches no outdent and leaves every child list (so the Block's
\* parent, depth and siblings) and every other block type as they were.
C9_BackspaceResetsBlockType ==
  (/\ lastCmd.op = "KEY_BACKSPACE_COMMAND"
   /\ collapsedAtStart
   /\ preBlockType[anchorBlock] # "paragraph")
    => /\ blockType = [preBlockType EXCEPT ![anchorBlock] = "paragraph"]
       /\ lastCmd.ret = TRUE
       /\ lastCmd.dispatched = <<>>
       /\ children = preChildren
       /\ getBlockDepth(children, anchorBlock) = getBlockDepth(preChildren, anchorBlock)

\* backspace reset the block type of a Block at depth 1 or deeper
C9_Witness ==
  /\ lastCmd.op = "KEY_BACKSPACE_COMMAND"
  /\ collapsedAtStart
  /\ preBlockType[anchorBlock] = "to_do"
  /\ blockType[anchorBlock] = "paragraph"
  /\ getBlockDepth(children, anchorBlock) >= 1

\* C10: backspace with a collapsed selection at offset 0 in a paragraph
\* Block at depth d >= 1 dispatches outdent and leaves the Block at depth
\* d - 1; in a paragraph Block at depth 0, or with a selection that is not
\* collapsed or not at offset 0, the handler returns false and changes
\* nothing.
C10_BackspaceOutdentsParagraph ==
  (lastCmd.op = "KEY_BACKSPACE_COMMAND" /\ blockSel.has
     /\ (preBlockType[anchorBlock] = "paragraph" \/ ~collapsedAtStart))
    => IF collapsedAtStart /\ getBlockDepth(preChildren, anchorBlock) >= 1
         THEN /\ lastCmd.dispatched = <<"OUTDENT_CONTENT_COMMAND">>
              /\ getBlockDepth(children, anchorBlock)
                   = getBlockDepth(preChildren, anchorBlock) - 1
              /\ blockType = preBlockType
         ELSE /\ lastCmd.ret = FALSE
              /\ lastCmd.dispatched = <<>>
              /\ children = preChildren
              /\ blockType = preBlockType

\* backspace took a paragraph Block from depth 2 to depth 1
C10_Witness ==
  /\ lastCmd.op = "KEY_BACKSPACE_COMMAND"
  /\ collapsedAtStart
  /\ preBlockType[anchorBlock] = "paragraph"
  /\ getBlockDepth(preChildren, anchorBlock) = 2
  /\ getBlockDepth(children, anchorBlock) = 1
  /\ lastCmd.dispatched = <<"OUTDENT_CONTENT_COMMAND">>


\* the Block whose outdent the claim is about: the only Block selected
outdentedAlone(N) ==
  /\ lastCmd.op = "OUTDENT_CONTENT_COMMAND"
  /\ blockSel.has
  /\ selectedBlocks(preChildren, blockSel) = {N}
  /\ isBlockNode(getParent(preChildren, N))

\* C13: the outdent of a Block N whose parent is a Block P with children
\* [.., N, f1..fk] leaves N as the next sibling of P, with f1..fk after N's
\* own children in their order, and P with the children that preceded N.
C13_OutdentTakesFollowingSiblings ==
  \A N \in BlockKeys :
    outdentedAlone(N) =>
      LET P == getParent(preChildren, N)
          i == indexOf(preChildren[P], N)
          G == getParent(preChildren, P)
          j == indexOf(preChildren[G], P)
      IN /\ children[P] = SubSeq(preChildren[P], 1, i - 1)
         /\ children[N] =
              preChildren[N] \o SubSeq(preChildren[P], i + 1, Len(preChildren[P]))
         /\ children[G] =
              SubSeq(preChildren[G], 1, j) \o <<N>>
                \o SubSeq(preChildren[G], j + 1, Len(preChildren[G]))

\* a Block with a following sibling was outdented
C13_Witness ==
  \E N \in BlockKeys :
    /\ outdentedAlone(N)
    /\ getNextSiblings(preChildren, N) # <<>>
    /\ getPreviousSibling(children, N) = getParent(preChildren, N)
    /\ Len(children[N]) = Len(preChildren[N]) + Len(getNextSiblings(preChildren, N))

\* the Block a removed BlockText was the only child of
emptiedBlock ==
  IF /\ lastCmd.op = "remove"
     /\ isBlockTextNode(lastCmd.args[1])
     /\ isBlockNode(getParent(preChildren, lastCmd.args[1]))
     /\ preChildren[getParent(preChildren, lastCmd.args[1])] = <<lastCmd.args[1]>>
    THEN getParent(preChildren, lastCmd.args[1])
    ELSE Null

\* C11: after the removal of a Block's only child, its BlockText, and the
\* Block transform, the Block is no longer in the tree: its place among its
\* siblings is closed and no other child list has changed (the Block had
\* nothing left to merge into its previous sibling or to splice into its
\* parent).
C11_EmptiedBlockLeavesTree ==
  emptiedBlock # Null =>
    /\ emptiedBlock \notin seqRange(attached(children))
    /\ \A p \in ElementKeys \ {emptiedBlock} :
         children[p] = SelectSeq(preChildren[p], LAMBDA x : x # emptiedBlock)

\* C12: after the Block transform has run on the Blocks of a pending
\* version, every Block in the tree has a BlockText as its first child.
C12_BlockTextFirst ==
  \A b \in BlockKeys :
    b \in seqRange(attached(children))
      => (children[b] # <<>> /\ isBlockTextNode(Head(children[b])))

----------------------------------------------------------------------------
(* Claims about the reconciler *)

reconciled == lastReconcile.op = "reconcileRoot"

\* every key has the same snapshot, or none, in both versions of the commit
sameSnapshots == lastReconcile.prevNodeMap = lastReconcile.nextNodeMap

\* the components whose handler the commit invoked
invokedCids == {lastReconcile.invoked[i].cid : i \in 1..Len(lastReconcile.invoked)}

\* the patch calls of components registered with reconcile = true whose key
\* has a host view
patchesDue ==
  {[fn |-> "updateBlockTextChildren", key |-> components[c].key, cid |-> c] :
     c \in {d \in invokedCids :
              components[d].reconcile /\ keyToDOMMap[components[d].key] # Null}}

RECURSIVE registeredHandlers(_)
\* every handler of the registry with its key, in the order of the registry
registeredHandlers(reg) ==
  IF reg = <<>> THEN <<>>
  ELSE [i \in 1..Len(Head(reg).updaters) |->
          [key |-> Head(reg).key, cid |-> Head(reg).updaters[i]]]
         \o registeredHandlers(Tail(reg))

\* C6: a commit with the full-rebuild flag visits every key of the registry
\* exactly once and invokes each of its updaters once, whatever the dirty
\* sets hold.
C6_FullRebuildVisitsEveryKey ==
  (reconciled /\ lastReconcile.dirtyType = "FULL_RECONCILE")
    => lastReconcile.invoked = registeredHandlers(keyToUpdatersMap)


\* the keys of the dirty sets of the commit
dirtyKeys ==
  seqRange(lastReconcile.dirtyElements) \cup seqRange(lastReconcile.dirtyLeaves)

\* C21: a commit without the full-rebuild flag invokes handlers of keys of
\* dirtyElements and dirtyLeaves only, and when both sets are empty it
\* invokes none, sets no reconciling context and returns an empty map.
C21_PartialVisitsDirtyKeysOnly ==
  (reconciled /\ lastReconcile.dirtyType # "FULL_RECONCILE")
    => /\ \A i \in 1..Len(lastReconcile.invoked) :
            lastReconcile.invoked[i].key \in dirtyKeys
       /\ dirtyKeys = {}
            => /\ lastReconcile.invoked = <<>>
               /\ ~lastReconcile.entered
               /\ lastReconcile.err = "ok"
               /\ lastReconcile.mutated = NoMutations
               /\ lastReconcile.patches = <<>>

\* a partial commit invoked the handler of a dirty key and left the
\* observer of a key outside the dirty sets alone
C21_Witness ==
  /\ reconciled
  /\ lastReconcile.dirtyType # "FULL_RECONCILE"
  /\ lastReconcile.invoked # <<>>
  /\ \E c \in Cids : /\ components[c].mounted
                     /\ components[c].key \notin dirtyKeys
                     /\ c \notin invokedCids
----------------------------------------------------------------------------
(* Claims about the observers a commit unmounts and mounts *)

\* the patch calls lastReconcile holds for the node of key
patchCallsOf(key) ==
  {i \in 1..Len(lastReconcile.patches) : lastReconcile.patches[i].key = key}

\* C17: within one commit createBlockTextChildren, updateBlockTextChildren
\* and destroyBlockTextChildren are called at most once in total for one
\* node key, also when the observer of the key is unmounted and a new
\* observer of the same key is mounted in that commit.
C17_OnePatchCallPerKey ==
  reconciled => \A k \in RKeys : Cardinality(patchCallsOf(k)) <= 1

\* a commit that has just returned or raised, nothing having run since
justReconciled == reconciled /\ ~lastReconcile.late

\* the render of the commit dropped the observer of key and mounted a new
\* one for it
remounted(key) ==
  key \in lastReconcile.unmountKeys /\ key \in lastReconcile.mountKeys

\* C18: in the mutated nodes of a commit a key other than the root is
\* 'created' only if an observer was registered for it and the previous
\* node map has no node for it, and 'destroyed' only if an observer was
\* deregistered for it and the next node map has no node for it; a key with
\* a node in both maps whose observer was remounted is neither.
C18_CreatedDestroyedOnlyForNewAndGone ==
  justReconciled =>
    \A k \in RKeys \ {RootKey} :
      /\ lastReconcile.mutated[k] = "created"
           => /\ k \in lastReconcile.mountKeys
              /\ lastReconcile.prevNodeMap[k] = Undefined
      /\ lastReconcile.mutated[k] = "destroyed"
           => /\ k \in lastReconcile.unmountKeys
              /\ lastReconcile.nextNodeMap[k] = Undefined
      /\ (remounted(k) /\ lastReconcile.prevNodeMap[k] # Undefined
            /\ lastReconcile.nextNodeMap[k] # Undefined)
           => lastReconcile.mutated[k] \notin {"created", "destroyed"}

\* C19: _setMutatedNode called with 'created' or 'updated' for a key that
\* has no node in the next node map raises the fatal error and records
\* nothing; called with 'destroyed' it never raises, and it records
\* something only if the key has a node in the previous node map.
C19_SetMutatedNodeRaisesOrRecords ==
  (lastReconcile.op = "setMutatedNode" /\ lastReconcile.type # "none") =>
    LET key == lastReconcile.key
        recorded == lastReconcile.mutated # lastReconcile.before
        raised == lastReconcile.err # "ok"
    IN /\ (lastReconcile.type \in {"created", "updated"}
             /\ reconcilingContext.nextNodeMap[key] = Undefined)
            => raised /\ ~recorded
       /\ lastReconcile.type = "destroyed"
            => /\ ~raised
               /\ recorded => reconcilingContext.prevNodeMap[key] # Undefined

\* 'updated' was recorded for a key without a next node and raised, after
\* a 'destroyed' that was recorded
C19_Witness ==
  /\ lastReconcile.op = "setMutatedNode"
  /\ lastReconcile.type = "updated"
  /\ reconcilingContext.nextNodeMap[lastReconcile.key] = Undefined
  /\ lastReconcile.err # "ok"
  /\ \E k \in RKeys : lastReconcile.mutated[k] = "destroyed"

\* the observers the commit found and left mounted
survivors ==
  {c \in RenderCids : components[c].mounted
                        /\ components[c].key \notin lastReconcile.mountKeys}

\* the components whose handler the commit invoked and that are still there
flushedCids == {c \in invokedCids : components[c].mounted}

\* C20: reconcileRoot returns the mutated nodes once, unless it raised, and
\* when it returns the context is cleared and everything the commit does is
\* done: on a full rebuild the handler of every observer left was
\* invoked, every re-rendered observer has run its update effect (event and
\* patch call), every new observer its created effect and every dropped one
\* its destroyed effect; what runs after the return records nothing into
\* the mutated nodes that were returned.
C20_ReturnedOnceAfterAllEffects ==
  reconciled =>
    /\ lastReconcile.returned = (IF lastReconcile.err = "ok" THEN 1 ELSE 0)
    /\ (lastReconcile.returned = 1) => reconcilingContext = NoContext
    /\ (lastReconcile.returned = 1 /\ ~lastReconcile.late) =>
         /\ lastReconcile.dirtyType = "FULL_RECONCILE" => survivors \subseteq invokedCids
         /\ \A c \in flushedCids :
              /\ lastReconcile.prevNodeMap[components[c].key]
                   # lastReconcile.nextNodeMap[components[c].key]
                   => lastReconcile.mutated[components[c].key] # "none"
              /\ (components[c].reconcile /\ keyToDOMMap[components[c].key] # Null)
                   => \E i \in 1..Len(lastReconcile.patches) :
                        lastReconcile.patches[i].cid = c
         /\ \A k \in lastReconcile.mountKeys : lastReconcile.mutated[k] # "none"
         /\ \A k \in lastReconcile.unmountKeys :
              lastReconcile.prevNodeMap[k] # Undefined
                => lastReconcile.mutated[k] # "none"
    /\ lastReconcile.late => lastReconcile.mutated = lastReconcile.atReturn

\* a commit returned mutated nodes, an observer was mounted afterwards, and
\* the mutated nodes are as they were returned
C20_Witness ==
  /\ reconciled
  /\ lastReconcile.late
  /\ lastReconcile.atReturn # NoMutations
  /\ \E k \in RKeys \ {RootKey} :
       /\ lastReconcile.atReturn[k] = "none"
       /\ \E c \in RenderCids : components[c].mounted /\ components[c].key = k

----------------------------------------------------------------------------
(* Claims about the Enter key, SpecEnter *)

enterPressed == lastCmd.op = "KEY_ENTER_COMMAND"

\* the Block the collapsed selection was in when Enter was pressed
enterBlock == getNearestBlockAncestorOrThrow(lastCmd.pre.children, blockSel.anchor)

\* Enter was pressed with a collapsed selection at offset 0
enterAtStart ==
  /\ enterPressed
  /\ blockSel.has /\ isCollapsed(blockSel) /\ blockSel.anchorOffset = 0

\* the BlockText of the Block had no children when Enter was pressed
enterInEmptyText ==
  /\ isBlockTextNode(getFirstChild(lastCmd.pre.children, enterBlock))
  /\ getChildrenSize(lastCmd.pre.children,
                     getFirstChild(lastCmd.pre.children, enterBlock)) = 0

\* C22: Enter with a collapsed selection at offset 0: in a Block of a list
\* type whose BlockText has no children the outdent command is dispatched
\* and the block type stays; in a Block of another type than paragraph
\* whose BlockText has no children the block type becomes paragraph and the
\* Block stays where it is; in a paragraph, or when the BlockText is not
\* empty, the handler reports the key as not handled and changes nothing.
C22_EnterOnEmptyBlock ==
  enterAtStart =>
    LET type == lastCmd.pre.blockType[enterBlock]
    IN /\ (enterInEmptyText /\ isListType(type))
            => /\ lastCmd.dispatched = <<"OUTDENT_CONTENT_COMMAND">>
               /\ blockType = lastCmd.pre.blockType
               /\ children = applyTransforms(dispatchOutdent(lastCmd.pre.children, blockSel).ch)
       /\ (enterInEmptyText /\ ~isListType(type) /\ ~isParagraphType(type))
            => /\ lastCmd.dispatched = <<>>
               /\ lastCmd.ret
               /\ blockType = [lastCmd.pre.blockType EXCEPT ![enterBlock] = "paragraph"]
               /\ children = lastCmd.pre.children
       /\ (~enterInEmptyText \/ isParagraphType(type))
            => /\ ~lastCmd.ret
               /\ lastCmd.dispatched = <<>>
               /\ blockType = lastCmd.pre.blockType
               /\ children = lastCmd.pre.children

\* Enter in an empty, nested list item moved it out; Enter next to text did
\* nothing
C22_Witness ==
  /\ enterAtStart /\ enterInEmptyText
  /\ isListType(lastCmd.pre.blockType[enterBlock])
  /\ children # lastCmd.pre.children
  /\ getBlockDepth(children, enterBlock) = 0

----------------------------------------------------------------------------
(* Claims about BlockTextNode.insertBefore, SpecInsertBefore *)

insertedBefore == lastCmd.op = "insertBefore"

\* the BlockText the call was made on, its enclosing Block, the node handed
\* in and the Block that stands for it
ibSelf == lastCmd.args[1]

ibEnclosing == getParent(lastCmd.pre.children, ibSelf)

ibNode == lastCmd.args[2]

ibBlock ==
  IF isBlockNode(ibNode) THEN ibNode ELSE getParent(lastCmd.pre.children, ibNode)

\* the Block to insert is the enclosing Block or one of its ancestors
ibOwnSubtree ==
  findMatchingParent(lastCmd.pre.children, ibEnclosing, {ibBlock}) # Null

\* the Block to insert is now the previous sibling of the enclosing Block,
\* under the parent the enclosing Block had
ibPlaced ==
  /\ getParent(children, ibEnclosing) = getParent(lastCmd.pre.children, ibEnclosing)
  /\ getParent(children, ibBlock) = getParent(children, ibEnclosing)
  /\ getPreviousSibling(children, ibEnclosing) = ibBlock

----------------------------------------------------------------------------
(* Claims about the versions of the editor state, SpecVersion *)

\* C24: while a pending version is edited, setBlockType never changes the
\* block type read from the committed version's snapshot of a node: every
\* key of the committed version reads as it did when the update began.
C24_CommittedBlockTypeKept ==
  pendingEditorState.active
    => blockTypesOf(objects, editorState) = pendingEditorState.committed

----------------------------------------------------------------------------
(* Claims about the mutation lock, SpecLock *)

\* C27: every lockMutation(id) of a component is eventually followed by an
\* unlockMutation(id): a locked id gets unlocked, so none stays locked
\* after its component has been unmounted.
C27_LockedIdGetsUnlocked ==
  \A c \in LockIds : (c \in mutationLocks) ~> (c \notin mutationLocks)

----------------------------------------------------------------------------
(* Claims about the order of indent and outdent, SpecDepth *)

indentRan == lastCmd.op = "INDENT_CONTENT_COMMAND"

outdentRan == lastCmd.op = "OUTDENT_CONTENT_COMMAND"

\* the nodes the selection held when the command ran, Blocks left out
selectedInner ==
  SelectSeq(getNodes(lastCmd.pre.children, blockSel), LAMBDA n : ~isBlockNode(n))

\* the Blocks these nodes lie in
blocksOfSelection ==
  {getNearestBlockAncestorOrThrow(lastCmd.pre.children, selectedInner[i]) :
     i \in 1..Len(selectedInner)}

\* the Blocks the command operated on, in the order of the operations
performed == nodesToPerform(lastCmd.pre.children, blockSel, indentRan)

depthBefore(b) == getBlockDepth(lastCmd.pre.children, b)

----------------------------------------------------------------------------
(* Claims about the shape of the tree after indent and outdent, SpecDepth *)

occurrences(s, n) == Cardinality({i \in 1..Len(s) : s[i] = n})

\* a is a proper ancestor of b
isAncestorOf(ch, a, b) == findMatchingParent(ch, getParent(ch, b), {a}) = a

attachedBlocks(ch) == seqRange(attached(ch)) \cap BlockKeys

\* the selection the command ran on held nodes of a Block and of a Block
\* nested inside it
nestedSelected ==
  \E a \in blocksOfSelection, b \in blocksOfSelection :
    a # b /\ isAncestorOf(lastCmd.pre.children, a, b)

\* C31: after an indent or outdent command on a selection that covers a
\* Block and Blocks nested inside it the tree is well formed: every selected
\* Block is reachable from the root exactly once, no Block is its own
\* ancestor, every Block of the document is still in it, and the first child
\* of every Block is its own BlockText.
C31_NestedSelectionKeepsTree ==
  ((indentRan \/ outdentRan) /\ blockSel.has /\ nestedSelected) =>
    \A order \in {attached(children)} :
      /\ \A b \in blocksOfSelection : occurrences(order, b) = 1
      /\ \A b \in BlockKeys : ~isAncestorOf(children, b, b)
      /\ attachedBlocks(lastCmd.pre.children) \subseteq seqRange(order)
      /\ \A b \in seqRange(order) \cap BlockKeys :
           children[b] # <<>> /\ Head(children[b]) = textOf(b)

\* an indent or outdent on a nested selection that moved a Block
C31_Witness ==
  /\ (indentRan \/ outdentRan) /\ blockSel.has /\ nestedSelected
  /\ children # lastCmd.pre.children
  /\ Cardinality(blocksOfSelection) >= 2

\* every Block the command operated on was a child of the root
allAtRoot ==
  \A b \in blocksOfSelection : getBlockParent(lastCmd.pre.children, b) = RootKey

\* C32: the outdent command on Blocks whose block parent is the document
\* root leaves the whole tree unchanged: each such Block stays a child of the
\* root at the same position and its following siblings are not moved into
\* it.
C32_OutdentAtRootChangesNothing ==
  (outdentRan /\ blockSel.has /\ allAtRoot) =>
    /\ children = lastCmd.pre.children
    /\ \A b \in blocksOfSelection :
         /\ getParent(children, b) = RootKey
         /\ indexOf(children[RootKey], b) = indexOf(lastCmd.pre.children[RootKey], b)
         /\ getNextSiblings(children, b) = getNextSiblings(lastCmd.pre.children, b)

\* an outdent on one Block at the root that has a following sibling and a
\* Block nested inside it
C32_Witness ==
  /\ outdentRan /\ blockSel.has /\ allAtRoot
  /\ \E b \in blocksOfSelection :
       /\ blocksOfSelection = {b}
       /\ getNextSiblings(lastCmd.pre.children, b) # <<>>
       /\ getChildBlocks(lastCmd.pre.children, b) # <<>>

----------------------------------------------------------------------------
(* Claims about the reconciler, SpecReconcile *)

\* the keys of the observer registry
registryKeys == {keyToUpdatersMap[i].key : i \in 1..Len(keyToUpdatersMap)}

\* the keys of the registry whose node the commit destroys: a node in the
\* previous version, none in the next
registeredDoomed ==
  {k \in registryKeys : /\ lastReconcile.prevNodeMap[k] # Undefined
                        /\ lastReconcile.nextNodeMap[k] = Undefined}

\* C33: a full-rebuild commit completes without the fatal consistency error
\* when the observer registry holds a key with a node in the previous
\* version and none in the next, a node about to be destroyed by this commit.
C33_FullRebuildToleratesDoomedKey ==
  (reconciled /\ lastReconcile.dirtyType = "FULL_RECONCILE" /\ registeredDoomed # {})
    => lastReconcile.err = "ok"

\* C34: an 'updated' event is recorded for a key in a commit only if the key
\* has a node in the previous and in the next version and the two snapshots
\* differ; never for a key without a node in the previous version.
C34_UpdatedOnlyForChangedNodes ==
  reconciled =>
    \A k \in RKeys :
      lastReconcile.mutated[k] = "updated"
        => /\ lastReconcile.prevNodeMap[k] # Undefined
           /\ lastReconcile.nextNodeMap[k] # Undefined
           /\ lastReconcile.prevNodeMap[k] # lastReconcile.nextNodeMap[k]

\* C35: whenever reconcileRoot has finished, by returning or by raising the
\* fatal consistency error from inside the visit loop, the editor's
\* reconciling context is null again.
C35_ContextNullAfterReconcile ==
  reconciled => reconcilingContext = NoContext

----------------------------------------------------------------------------
(* Claims about BlockNode.setBlockType, SpecSetBlockType *)

blockTypeSet == lastCmd.op = "setBlockType"

\* C37: setBlockType with a value outside the ten block types fails and
\* leaves the Block's blockType and every other node as they were; with one
\* of the ten it changes the blockType of that Block and nothing else.
C37_SetBlockTypeChecksValue ==
  blockTypeSet =>
    /\ children = lastCmd.pre.children
    /\ IF lastCmd.args[2] \in blockTypes
         THEN /\ lastCmd.ret
              /\ blockType = [lastCmd.pre.blockType EXCEPT ![lastCmd.args[1]] = lastCmd.args[2]]
         ELSE /\ ~lastCmd.ret
              /\ blockType = lastCmd.pre.blockType

\* a call with a string that is no block type on a Block that has another
\* Block beside it
C37_Witness ==
  /\ blockTypeSet
  /\ lastCmd.args[2] \notin blockTypes
  /\ created >= 2
  /\ blockType[lastCmd.args[1]] # defaultBlockType

----------------------------------------------------------------------------
(* Claims about the registry of handlers, SpecRegistry *)

\* the observers registered for key
registeredFor(key) ==
  {o \in ObserverIds : observers[o].registered /\ observers[o].key = key}

\* C36: after any interleaving of registrations and deregistrations of
\* observers, several of which may share a key, the registry holds a key if
\* and only if an observer is registered for it, the Set of the key holds
\* exactly the handlers of the observers registered for it, and no key has
\* an empty Set.
C36_RegistryHoldsRegisteredHandlers ==
  \A key \in ObservedKeys :
    /\ (setOfKey[key] # Null) <=> (registeredFor(key) # {})
    /\ (setOfKey[key] # Null) =>
         /\ updaterSets[setOfKey[key]] = registeredFor(key)
         /\ updaterSets[setOfKey[key]] # {}

\* two observers share a key, and another key has lost its only observer
C36_Witness ==
  \E key \in ObservedKeys, other \in ObservedKeys :
    /\ key # other
    /\ Cardinality(registeredFor(key)) >= 2
    /\ \E o \in ObserverIds : ~observers[o].registered /\ observers[o].key = other
    /\ registeredFor(other) = {}
    /\ setOfKey[other] = Null

----------------------------------------------------------------------------
(* Claims about the diff of two texts, SpecDiff *)

\* a with count characters from index replaced by inserted
patched(a, index, count, inserted) ==
  SubSeq(a, 1, index) \o inserted \o SubSeq(a, index + count + 1, Len(a))

\* C38: for all strings a and b and every cursor >= 0 the diff returns
\* [index, remove, insert] with 0 <= index, 0 <= remove and
\* index + remove <= length(a) such that a with the remove characters from
\* index replaced by insert is b; and for a = b it returns remove = 0 and
\* insert = ''.
C38_DiffPatchesAToB ==
  lastDiff # <<>> /\ lastDiff.done =>
    /\ 0 <= lastDiff.index
    /\ 0 <= lastDiff.remove
    /\ lastDiff.index + lastDiff.remove <= Len(lastDiff.a)
    /\ patched(lastDiff.a, lastDiff.index, lastDiff.remove, lastDiff.insert) = lastDiff.b
    /\ (lastDiff.a = lastDiff.b => lastDiff.remove = 0 /\ lastDiff.insert = <<>>)

\* a diff that removes and inserts behind a common prefix, with the cursor
\* before the end of that prefix
C38_Witness ==
  /\ lastDiff # <<>>
  /\ lastDiff.done
  /\ lastDiff.a # lastDiff.b
  /\ lastDiff.remove > 0
  /\ lastDiff.insert # <<>>
  /\ lastDiff.index > lastDiff.cursor

----------------------------------------------------------------------------
(* Claims about the highlights after a text change, SpecHighlight *)

\* the update went through the highlights with the change [index, remove,
\* insert]
highlightsUpdated == lastHighlightUpdate # <<>> /\ lastHighlightUpdate.done /\ lastHighlightUpdate.looped

\* C39: in the highlight update after a text change [index, remove,
\* insert], a highlight lying entirely after the changed range has start
\* and end both shifted by length(insert) - remove; and a highlight without
\* invalidateOnTextChange into which text is inserted strictly inside it
\* (remove = 0, insert non-empty, start < index < end) is kept, with its end
\* increased by length(insert) and its start unchanged.
C39_HighlightsFollowTextChange ==
  highlightsUpdated =>
    \A i \in 1..Len(lastHighlightUpdate.before) :
      LET h == lastHighlightUpdate.before[i]
          index == lastHighlightUpdate.index
          count == lastHighlightUpdate.remove
          inserted == lastHighlightUpdate.insert
      IN /\ index + count < h.start =>
              \E j \in 1..Len(highlights) :
                /\ highlights[j].start = h.start + Len(inserted) - count
                /\ highlights[j].end = h.end + Len(inserted) - count
         /\ (~h.invalidateOnTextChange /\ count = 0 /\ inserted # <<>> /\ h.start < index /\ index < h.end) =>
              \E j \in 1..Len(highlights) :
                /\ highlights[j].start = h.start
                /\ highlights[j].end = h.end + Len(inserted)

----------------------------------------------------------------------------
(* Claims about the Map from keys to host views, SpecHostView *)

\* the host views attached for nodeKey
attachedViews(nodeKey) == {v \in HostViewIds : hostViews.keyOf[v] = nodeKey}

\* C40: after any sequence of host-view attach and detach callbacks for a
\* key, a new instance attaching in the commit in which the old one
\* detaches included, the Map from keys to host views has an entry for the
\* key if and only if a host view of the key is attached, and the entry is
\* that view.
C40_MapHoldsAttachedView ==
  hostViews # <<>> =>
    \A nodeKey \in HostKeys :
      /\ (keyToDOMMap[nodeKey] # Null) <=> (attachedViews(nodeKey) # {})
      /\ (keyToDOMMap[nodeKey] # Null) => attachedViews(nodeKey) = {keyToDOMMap[nodeKey]}

\* a commit has detached the host view of a key and attached another host
\* view for it, while the view of a second key stayed attached and a third
\* key lost its view
C40_Witness ==
  /\ hostViews # <<>>
  /\ hostViews.phase = "attach"
  /\ \E nodeKey \in hostViews.detached, other \in HostKeys \ hostViews.detached, lost \in hostViews.detached :
       /\ attachedViews(nodeKey) # {}
       /\ attachedViews(other) # {}
       /\ attachedViews(lost) = {}
       /\ keyToDOMMap[lost] = Null
====
